---- MODULE Spec2Model ----
(***************************************************************************)
(* Wallet ledger, deposit reconciliation, API-key manager and token        *)
(* revocation registry of the service (app/services/wallet.py,             *)
(* app/services/api_keys.py, app/services/auth.py).                        *)
(*                                                                         *)
(* Amounts are Numeric(15,2) columns: an amount is an integer count of     *)
(* hundredths of a kobo (100 = 1.00 kobo).  The amount of a webhook        *)
(* payload is the gateway's integer count of kobo.                         *)
(*                                                                         *)
(* A wallet row is identified with its owner (wallets.user_id is unique),  *)
(* a key's secret and its hash with the key row's id (api_keys.key_hash is *)
(* unique and secrets are random).  Time is counted in minutes.            *)
(*                                                                         *)
(* Sequential specifications run every service function to completion in   *)
(* one step.  Concurrent specifications give every request its own ORM     *)
(* session: a query copies the committed row into the session, attribute   *)
(* writes stay in the session, and commit writes the session's values      *)
(* (UPDATE ... SET column = value) and its new rows in one atomic step.    *)
(***************************************************************************)
EXTENDS Integers, FiniteSets, Sequences, TLC

VARIABLES now, wallets, txs, keys, cache, issued, sess, blacklist, users, resets, requests

walletVars == <<wallets, txs>>

keyVars == <<keys, cache, issued>>

vars == <<now, walletVars, keyVars, sess, blacklist, users, resets, requests>>

----------------------------------------------------------------------------
(* Bounds of the model *)

MaxDeposits == 2
MaxTransfers == 2
\* key rows ever inserted in the key manager's specification
MaxKeys == 2
\* key rows inserted beyond the quota in the quota specifications
MaxSpareKeys == 2
\* the clock stops at MaxTime minutes
MaxTime == 66

\* the users of the model
Users == {1, 2}
\* the concurrent requests (one ORM session each) of the concurrent specifications
Workers == {1, 2}
\* the client addresses the rate limiter sees
Clients == {1, 2}
\* one wallet number more than wallets, so that some number is always unknown
WalletNumbers == 1..(Cardinality(Users) + 1)
DepositIds == 1..MaxDeposits
TransferIds == 1..MaxTransfers

\* Numeric(15,2): two decimal places
Scale == 100

\* request amounts, in hundredths: 1.00 and 1.50
Amounts == {Scale, Scale + Scale \div 2}
\* webhook payload amounts, in kobo
PayloadAmounts == {1, 2}

NoRef == [kind |-> "none", n |-> 0, side |-> ""]
DepRef(n) == [kind |-> "DEP", n |-> n, side |-> ""]
TrfRef(n, side) == [kind |-> "TRF", n |-> n, side |-> side]

Idle == [pc |-> "idle"]

----------------------------------------------------------------------------
(* Wallets *)

WalletOf(ws, user) == IF user \in DOMAIN ws THEN {user} ELSE {}

\* a lookup that takes the number for the owner's id
WalletByNumber_ById(ws, number) == {w \in DOMAIN ws : w = number}

WalletByNumber(ws, number) == {w \in DOMAIN ws : ws[w].number = number}

UsedNumbers(ws) == {ws[w].number : w \in DOMAIN ws}

\* generate_wallet_number until unused: numbers are opaque, the least unused one is drawn
generate_wallet_number(ws) ==
    CHOOSE n \in WalletNumbers \ UsedNumbers(ws) : \A m \in WalletNumbers \ UsedNumbers(ws) : n <= m

\* create_wallet: the existing wallet, or a new one with an unused number
\* a create_wallet that replaces the wallet a user has
create_wallet_Replace(ws, user, number) ==
    [w \in DOMAIN ws \cup {user} |->
        IF w = user THEN [number |-> number, balance |-> 0] ELSE ws[w]]

create_wallet(ws, user, number) ==
    IF WalletOf(ws, user) # {} THEN ws
    ELSE [w \in DOMAIN ws \cup {user} |->
            IF w = user THEN [number |-> number, balance |-> 0] ELSE ws[w]]

\* get_wallet_by_user: the lookup every wallet route starts with; it creates nothing
get_wallet_by_user(ws, user) ==
    IF WalletOf(ws, user) = {} THEN [wallets |-> ws, ret |-> "404"]
    ELSE [wallets |-> ws, ret |-> "wallet"]

----------------------------------------------------------------------------
(* Transactions *)

FindTx(ts, ref) == {t \in ts : t.ref = ref}

FreshIds(ts, kind, ids) == {n \in ids : ~\E t \in ts : t.ref.kind = kind /\ t.ref.n = n}

\* secrets.token_urlsafe(16): a reference no row carries
FreshId(ts, kind, ids) == CHOOSE n \in FreshIds(ts, kind, ids) : \A m \in FreshIds(ts, kind, ids) : n <= m

PendingDeposit(ref, wallet, amount) ==
    [ref |-> ref, wallet |-> wallet, type |-> "deposit", amount |-> amount,
     status |-> "pending", meta |-> {"email"}]

\* a failure path that removes the row instead of marking it
SetStatus_Delete(ts, ref, status) == {t \in ts : t.ref # ref}

SetStatus(ts, ref, status) ==
    {IF t.ref = ref THEN [t EXCEPT !.status = status] ELSE t : t \in ts}

\* initiate_deposit, run to completion; gatewayOk is the outcome of the gateway call
\* a deposit that is credited when it is initiated
initiate_deposit_Credit(ws, ts, user, amount, n, gatewayOk) ==
    IF WalletOf(ws, user) = {} THEN [wallets |-> ws, txs |-> ts, ret |-> "404"]
    ELSE [wallets |-> [ws EXCEPT ![user].balance = @ + amount],
          txs |-> ts \cup {PendingDeposit(DepRef(n), user, amount)}, ret |-> "pending"]

initiate_deposit(ws, ts, user, amount, n, gatewayOk) ==
    IF WalletOf(ws, user) = {} THEN [wallets |-> ws, txs |-> ts, ret |-> "404"]
    ELSE LET added == ts \cup {PendingDeposit(DepRef(n), user, amount)}
         IN IF gatewayOk
            THEN [wallets |-> ws, txs |-> added, ret |-> "pending"]
            ELSE [wallets |-> ws, txs |-> SetStatus(added, DepRef(n), "failed"), ret |-> "500"]

\* int(transaction.amount): the whole kobo of a stored amount
IntPart(amount) == amount \div Scale

\* the idempotency check left out
AlreadyProcessed_Never(t) == FALSE

AlreadyProcessed(t) == t.status = "success"

AmountMismatch(t, amount) == IntPart(t.amount) # amount

\* UPDATE transactions SET status, metadata WHERE id: the row of the loaded object t
UpdateTx(ts, t, status, meta) ==
    {IF x.ref = t.ref THEN [x EXCEPT !.status = status, !.meta = meta] ELSE x : x \in ts}

\* the mismatch branch and its commit; t is the transaction as the session loaded it
MarkMismatch(ts, t) == UpdateTx(ts, t, "failed", {"error", "expected", "received"})

\* a success branch that overwrites the metadata, as the mismatch branch does
MarkSuccess_Overwrite(ts, t) == UpdateTx(ts, t, "success", {"paystack_reference", "processed_at"})

\* the success branch: status and merged metadata
MarkSuccess(ts, t) == UpdateTx(ts, t, "success", t.meta \cup {"paystack_reference", "processed_at"})

\* a credit of the whole kobo of the stored amount
Credit_WholeKobo(balance, t) == balance + (t.amount \div Scale) * Scale

\* wallet.balance += transaction.amount, on the balance the session loaded
Credit(balance, t) == balance + t.amount

\* the commit of the success branch: the transaction and the wallet in one commit
WebhookCommit(ws, ts, t, balance) ==
    [wallets |-> [ws EXCEPT ![t.wallet].balance = Credit(balance, t)],
     txs |-> MarkSuccess(ts, t)]

\* a check that forgets the status of the charge
IgnoredPayload_AnyStatus(p) == p.event # "charge.success" \/ p.ref = NoRef

IgnoredPayload(p) == p.event # "charge.success" \/ p.ref = NoRef \/ p.status # "success"

\* an amount the payload does not carry: data.get("amount") is None, equal to no integer
NoAmount == 0 - 1

\* payload.get("data", {}) of a payload whose data is null is None, and None.get raises
DataRaises(p) == p.event = "charge.success" /\ p.data = "null"

\* process_webhook, run to completion; why says which way it ended, and with
\* "AttributeError" the call raised and returned nothing
process_webhook(ws, ts, p) ==
    IF DataRaises(p) THEN [wallets |-> ws, txs |-> ts, ret |-> FALSE, why |-> "AttributeError"]
    ELSE IF IgnoredPayload(p) THEN [wallets |-> ws, txs |-> ts, ret |-> FALSE, why |-> "ignored"]
    ELSE IF FindTx(ts, p.ref) = {} THEN [wallets |-> ws, txs |-> ts, ret |-> FALSE, why |-> "unknown"]
    ELSE LET t == CHOOSE x \in FindTx(ts, p.ref) : TRUE
         IN IF AlreadyProcessed(t)
            THEN [wallets |-> ws, txs |-> ts, ret |-> TRUE, why |-> "replay"]
            ELSE IF AmountMismatch(t, p.amount)
            THEN [wallets |-> ws, txs |-> MarkMismatch(ts, t), ret |-> FALSE, why |-> "mismatch"]
            ELSE [wallets |-> WebhookCommit(ws, ts, t, ws[t.wallet].balance).wallets,
                  txs |-> WebhookCommit(ws, ts, t, ws[t.wallet].balance).txs,
                  ret |-> TRUE, why |-> "credited"]

TransferRow(ref, wallet, type, amount) ==
    [ref |-> ref, wallet |-> wallet, type |-> type, amount |-> amount,
     status |-> "success", meta |-> {"counterparty"}]

\* a transfer that adds the sender's row only
TransferRows_OutOnly(n, sender, recipient, amount) ==
    {TransferRow(TrfRef(n, "OUT"), sender, "transfer_out", amount)}

TransferRows(n, sender, recipient, amount) ==
    {TransferRow(TrfRef(n, "OUT"), sender, "transfer_out", amount),
     TransferRow(TrfRef(n, "IN"), recipient, "transfer_in", amount)}

\* a balance check that also refuses the whole balance
InsufficientBalance_OrEqual(balance, amount) == balance <= amount

InsufficientBalance(balance, amount) == balance < amount

Debit(balance, amount) == balance - amount

CreditAmount(balance, amount) == balance + amount

\* a debit committed on its own, before the credit
TransferCommit_DebitFirst(ws, ts, sender, senderBal, recipient, recipientBal, amount, n, commitOk) ==
    IF commitOk
    THEN [wallets |-> [ws EXCEPT ![sender].balance = Debit(senderBal, amount),
                                 ![recipient].balance = CreditAmount(recipientBal, amount)],
          txs |-> ts \cup TransferRows(n, sender, recipient, amount),
          ret |-> "success"]
    ELSE [wallets |-> [ws EXCEPT ![sender].balance = Debit(senderBal, amount)],
          txs |-> ts \cup {TransferRow(TrfRef(n, "OUT"), sender, "transfer_out", amount)},
          ret |-> "500"]

\* the commit of a transfer: both balances and both rows, or (commit failure) nothing
TransferCommit(ws, ts, sender, senderBal, recipient, recipientBal, amount, n, commitOk) ==
    IF commitOk
    THEN [wallets |-> [ws EXCEPT ![sender].balance = Debit(senderBal, amount),
                                 ![recipient].balance = CreditAmount(recipientBal, amount)],
          txs |-> ts \cup TransferRows(n, sender, recipient, amount),
          ret |-> "success"]
    ELSE [wallets |-> ws, txs |-> ts, ret |-> "500"]

\* transfer_funds, run to completion
transfer_funds(ws, ts, sender, number, amount, n, commitOk) ==
    IF WalletOf(ws, sender) = {} THEN [wallets |-> ws, txs |-> ts, ret |-> "404_sender"]
    ELSE IF WalletByNumber(ws, number) = {} THEN [wallets |-> ws, txs |-> ts, ret |-> "404_recipient"]
    ELSE LET recipient == CHOOSE w \in WalletByNumber(ws, number) : TRUE
         IN IF sender = recipient THEN [wallets |-> ws, txs |-> ts, ret |-> "400_self"]
            ELSE IF InsufficientBalance(ws[sender].balance, amount)
            THEN [wallets |-> ws, txs |-> ts, ret |-> "400_insufficient"]
            ELSE TransferCommit(ws, ts, sender, ws[sender].balance,
                                recipient, ws[recipient].balance, amount, n, commitOk)

\* get_deposit_status: a read
get_deposit_status(ts, ref) ==
    LET found == {t \in FindTx(ts, ref) : t.type = "deposit"}
    IN IF found = {} THEN "404" ELSE (CHOOSE t \in found : TRUE).status

----------------------------------------------------------------------------
(* Requests of the wallet ledger *)

Payloads ==
    {[data |-> "dict", event |-> "charge.success", status |-> "success", ref |-> DepRef(n), amount |-> a] :
        n \in DepositIds, a \in PayloadAmounts}
    \cup {[data |-> "dict", event |-> "charge.success", status |-> "success", ref |-> TrfRef(1, "OUT"), amount |-> 1],
          [data |-> "dict", event |-> "charge.success", status |-> "success", ref |-> NoRef, amount |-> 1],
          [data |-> "dict", event |-> "charge.success", status |-> "failed", ref |-> DepRef(1), amount |-> 1],
          [data |-> "dict", event |-> "charge.failed", status |-> "success", ref |-> DepRef(1), amount |-> 1],
          [data |-> "dict", event |-> "charge.success", status |-> "success", ref |-> DepRef(1), amount |-> NoAmount],
          [data |-> "absent", event |-> "charge.success", status |-> "", ref |-> NoRef, amount |-> NoAmount],
          [data |-> "null", event |-> "charge.success", status |-> "", ref |-> NoRef, amount |-> NoAmount],
          [data |-> "null", event |-> "charge.failed", status |-> "", ref |-> NoRef, amount |-> NoAmount]}

CreateWallet(user) ==
    /\ wallets' = create_wallet(wallets, user, generate_wallet_number(wallets))
    /\ UNCHANGED <<now, txs, keyVars, sess, blacklist, users, resets, requests>>

InitiateDeposit(user, amount, gatewayOk) ==
    /\ FreshIds(txs, "DEP", DepositIds) # {}
    /\ LET r == initiate_deposit(wallets, txs, user, amount, FreshId(txs, "DEP", DepositIds), gatewayOk)
       IN /\ wallets' = r.wallets
          /\ txs' = r.txs
    /\ UNCHANGED <<now, keyVars, sess, blacklist, users, resets, requests>>

ProcessWebhook(p) ==
    /\ LET r == process_webhook(wallets, txs, p)
       IN /\ wallets' = r.wallets
          /\ txs' = r.txs
    /\ UNCHANGED <<now, keyVars, sess, blacklist, users, resets, requests>>

TransferFunds(sender, number, amount, commitOk) ==
    /\ FreshIds(txs, "TRF", TransferIds) # {}
    /\ LET r == transfer_funds(wallets, txs, sender, number, amount, FreshId(txs, "TRF", TransferIds), commitOk)
       IN /\ wallets' = r.wallets
          /\ txs' = r.txs
    /\ UNCHANGED <<now, keyVars, sess, blacklist, users, resets, requests>>

GetDepositStatus(ref) ==
    /\ get_deposit_status(txs, ref) \in {"404", "pending", "success", "failed"}
    /\ UNCHANGED <<now, walletVars, keyVars, sess, blacklist, users, resets, requests>>

Init ==
    /\ now = 0
    /\ wallets = <<>>
    /\ txs = {}
    /\ keys = {}
    /\ cache = {}
    /\ issued = 0
    /\ sess = [w \in Workers |-> Idle]
    /\ blacklist = {}
    /\ users = {}
    /\ resets = 0
    /\ requests = [c \in Clients |-> <<>>]

NextWallet ==
    \/ \E user \in Users : CreateWallet(user)
    \/ \E user \in Users, amount \in Amounts, gatewayOk \in BOOLEAN :
          InitiateDeposit(user, amount, gatewayOk)
    \/ \E p \in Payloads : ProcessWebhook(p)
    \/ \E sender \in Users, number \in WalletNumbers, amount \in Amounts, commitOk \in BOOLEAN :
          TransferFunds(sender, number, amount, commitOk)
    \/ \E n \in DepositIds : GetDepositStatus(DepRef(n))

SpecWallet == Init /\ [][NextWallet]_vars

----------------------------------------------------------------------------
(* Concurrent requests on the wallet ledger: one session per request, a step  *)
(* per call to the persistence layer                                           *)

SetSess(w, s) == sess' = [sess EXCEPT ![w] = s]

\* transfer_funds: the query of the sender's wallet
TransferBegin(w, sender, number, amount) ==
    /\ sess[w] = Idle
    /\ IF WalletOf(wallets, sender) = {}
       THEN SetSess(w, Idle)
       ELSE SetSess(w, [pc |-> "transfer_recipient", sender |-> sender, number |-> number,
                        amount |-> amount, senderBal |-> wallets[sender].balance])
    /\ UNCHANGED <<now, walletVars, keyVars, blacklist, users, resets, requests>>

\* transfer_funds: the query of the recipient's wallet, and the checks on the loaded rows
TransferFindRecipient(w) ==
    /\ sess[w].pc = "transfer_recipient"
    /\ LET s == sess[w]
       IN IF WalletByNumber(wallets, s.number) = {}
          THEN SetSess(w, Idle)
          ELSE LET recipient == CHOOSE r \in WalletByNumber(wallets, s.number) : TRUE
               IN IF s.sender = recipient \/ InsufficientBalance(s.senderBal, s.amount)
                  THEN SetSess(w, Idle)
                  ELSE SetSess(w, [pc |-> "transfer_commit", sender |-> s.sender,
                                   amount |-> s.amount, senderBal |-> s.senderBal,
                                   recipient |-> recipient,
                                   recipientBal |-> wallets[recipient].balance])
    /\ UNCHANGED <<now, walletVars, keyVars, blacklist, users, resets, requests>>

\* transfer_funds: db.commit(), or its failure and db.rollback()
TransferCommitStep(w, commitOk) ==
    /\ sess[w].pc = "transfer_commit"
    /\ FreshIds(txs, "TRF", TransferIds) # {}
    /\ LET s == sess[w]
           r == TransferCommit(wallets, txs, s.sender, s.senderBal, s.recipient, s.recipientBal,
                               s.amount, FreshId(txs, "TRF", TransferIds), commitOk)
       IN /\ wallets' = r.wallets
          /\ txs' = r.txs
    /\ SetSess(w, Idle)
    /\ UNCHANGED <<now, keyVars, blacklist, users, resets, requests>>

\* process_webhook: the payload checks, the query of the transaction, and the
\* checks on the loaded row
WebhookBegin(w, p) ==
    /\ sess[w] = Idle
    /\ IF IgnoredPayload(p) \/ FindTx(txs, p.ref) = {}
       THEN SetSess(w, Idle)
       ELSE LET t == CHOOSE x \in FindTx(txs, p.ref) : TRUE
            IN IF AlreadyProcessed(t) THEN SetSess(w, Idle)
               ELSE IF AmountMismatch(t, p.amount)
               THEN SetSess(w, [pc |-> "webhook_mismatch", t |-> t])
               ELSE SetSess(w, [pc |-> "webhook_wallet", t |-> t])
    /\ UNCHANGED <<now, walletVars, keyVars, blacklist, users, resets, requests>>

\* process_webhook: the commit of the mismatch branch
WebhookCommitMismatch(w) ==
    /\ sess[w].pc = "webhook_mismatch"
    /\ txs' = MarkMismatch(txs, sess[w].t)
    /\ SetSess(w, Idle)
    /\ UNCHANGED <<now, wallets, keyVars, blacklist, users, resets, requests>>

\* process_webhook: the query of the wallet
WebhookReadWallet(w) ==
    /\ sess[w].pc = "webhook_wallet"
    /\ SetSess(w, [pc |-> "webhook_commit", t |-> sess[w].t,
                    balance |-> wallets[sess[w].t.wallet].balance])
    /\ UNCHANGED <<now, walletVars, keyVars, blacklist, users, resets, requests>>

\* process_webhook: the commit of the success branch
WebhookCommitStep(w) ==
    /\ sess[w].pc = "webhook_commit"
    /\ LET r == WebhookCommit(wallets, txs, sess[w].t, sess[w].balance)
       IN /\ wallets' = r.wallets
          /\ txs' = r.txs
    /\ SetSess(w, Idle)
    /\ UNCHANGED <<now, keyVars, blacklist, users, resets, requests>>

\* a charge.success delivery for a deposit
Delivery(n, amount) ==
    [data |-> "dict", event |-> "charge.success", status |-> "success", ref |-> DepRef(n), amount |-> amount]

\* The ledger the concurrent requests start from, built by the service functions:
\* both users have a wallet, user 1 has been credited a first deposit of 1.00 and has
\* initiated a second one, still pending.
FundedLedger ==
    LET w1 == create_wallet(<<>>, 1, generate_wallet_number(<<>>))
        w2 == create_wallet(w1, 2, generate_wallet_number(w1))
        d1 == initiate_deposit(w2, {}, 1, Scale, 1, TRUE)
        c1 == process_webhook(d1.wallets, d1.txs, Delivery(1, 1))
    IN  initiate_deposit(c1.wallets, c1.txs, 1, Scale, 2, TRUE)

InitFunded ==
    /\ now = 0
    /\ wallets = FundedLedger.wallets
    /\ txs = FundedLedger.txs
    /\ keys = {}
    /\ cache = {}
    /\ issued = 0
    /\ sess = [w \in Workers |-> Idle]
    /\ blacklist = {}
    /\ users = {}
    /\ resets = 0
    /\ requests = [c \in Clients |-> <<>>]

NextTransferConc ==
    \/ \E w \in Workers, sender \in Users, number \in WalletNumbers, amount \in Amounts :
          TransferBegin(w, sender, number, amount)
    \/ \E w \in Workers : TransferFindRecipient(w)
    \/ \E w \in Workers, commitOk \in BOOLEAN : TransferCommitStep(w, commitOk)

SpecTransferConc == InitFunded /\ [][NextTransferConc]_vars

\* The ledger the concurrent deliveries start from, built by the service functions:
\* each user has a wallet and one pending deposit (1.00 for user 1, 1.50 for user 2).
PendingLedger ==
    LET w1 == create_wallet(<<>>, 1, generate_wallet_number(<<>>))
        w2 == create_wallet(w1, 2, generate_wallet_number(w1))
        d1 == initiate_deposit(w2, {}, 1, Scale, 1, TRUE)
    IN  initiate_deposit(d1.wallets, d1.txs, 2, Scale + Scale \div 2, 2, TRUE)

InitPending ==
    /\ now = 0
    /\ wallets = PendingLedger.wallets
    /\ txs = PendingLedger.txs
    /\ keys = {}
    /\ cache = {}
    /\ issued = 0
    /\ sess = [w \in Workers |-> Idle]
    /\ blacklist = {}
    /\ users = {}
    /\ resets = 0
    /\ requests = [c \in Clients |-> <<>>]

\* the gateway's deliveries: for each deposit, the charge.success payload with the
\* amount the gateway was given at initiation, int(amount), delivered any number of times
NextWebhookConc ==
    \/ \E w \in Workers, n \in {1, 2} : WebhookBegin(w, Delivery(n, 1))
    \/ \E w \in Workers : WebhookReadWallet(w)
    \/ \E w \in Workers : WebhookCommitStep(w)

SpecWebhookConc == InitPending /\ [][NextWebhookConc]_vars

----------------------------------------------------------------------------
(* initiate_deposit around its gateway call: the only await of the service, *)
(* during which other requests run                                          *)

\* initiate_deposit up to the gateway call: the pending row is committed
DepositBegin(w, user, amount) ==
    /\ sess[w] = Idle
    /\ WalletOf(wallets, user) # {}
    /\ FreshIds(txs, "DEP", DepositIds) # {}
    /\ LET n == FreshId(txs, "DEP", DepositIds)
       IN /\ txs' = txs \cup {PendingDeposit(DepRef(n), user, amount)}
          /\ SetSess(w, [pc |-> "deposit_gateway", ref |-> DepRef(n)])
    /\ UNCHANGED <<now, wallets, keyVars, blacklist, users, resets, requests>>

\* the gateway call returns, or raises and the row is marked failed and committed
DepositGatewayReturn(w, gatewayOk) ==
    /\ sess[w].pc = "deposit_gateway"
    /\ IF gatewayOk
       THEN /\ UNCHANGED txs
            /\ SetSess(w, [pc |-> "deposit_done", ref |-> sess[w].ref, ret |-> "pending"])
       ELSE /\ txs' = SetStatus(txs, sess[w].ref, "failed")
            /\ SetSess(w, [pc |-> "deposit_done", ref |-> sess[w].ref, ret |-> "500"])
    /\ UNCHANGED <<now, wallets, keyVars, blacklist, users, resets, requests>>

\* the response, or the error, reaches the caller
DepositDone(w) ==
    /\ sess[w].pc = "deposit_done"
    /\ SetSess(w, Idle)
    /\ UNCHANGED <<now, walletVars, keyVars, blacklist, users, resets, requests>>

\* both users have a wallet
TwoWallets ==
    LET w1 == create_wallet(<<>>, 1, generate_wallet_number(<<>>))
    IN  create_wallet(w1, 2, generate_wallet_number(w1))

InitWallets ==
    /\ now = 0
    /\ wallets = TwoWallets
    /\ txs = {}
    /\ keys = {}
    /\ cache = {}
    /\ issued = 0
    /\ sess = [w \in Workers |-> Idle]
    /\ blacklist = {}
    /\ users = {}
    /\ resets = 0
    /\ requests = [c \in Clients |-> <<>>]

NextDeposit ==
    \/ \E w \in Workers, user \in Users, amount \in Amounts : DepositBegin(w, user, amount)
    \/ \E w \in Workers, gatewayOk \in BOOLEAN : DepositGatewayReturn(w, gatewayOk)
    \/ \E w \in Workers : DepositDone(w)
    \/ \E n \in DepositIds, a \in PayloadAmounts : ProcessWebhook(Delivery(n, a))

SpecDeposit == InitWallets /\ [][NextDeposit]_vars

----------------------------------------------------------------------------
(* API keys *)

\* "Maximum of 5 active API keys allowed"
MaxActiveKeys == 5

\* "Cache for 5 minutes"
CacheTTL == 5

MinutesPerHour == 60
HoursPerDay == 24
DaysPerMonth == 30
DaysPerYear == 365

Units == {"H", "D", "M", "Y"}

\* convert_expiry_to_datetime at time t; an expiry such as "7D" is [amount |-> 7, unit |-> "D"]
convert_expiry_to_datetime(t, expiry) ==
    IF expiry.unit = "H" THEN t + expiry.amount * MinutesPerHour
    ELSE IF expiry.unit = "D" THEN t + expiry.amount * HoursPerDay * MinutesPerHour
    ELSE IF expiry.unit = "M" THEN t + expiry.amount * DaysPerMonth * HoursPerDay * MinutesPerHour
    ELSE t + expiry.amount * DaysPerYear * HoursPerDay * MinutesPerHour

\* the row create_api_key inserts; last_used_at is empty until a validation sets it
NewKey(id, user, name, permissions, expires_at) ==
    [id |-> id, key_hash |-> id, user_id |-> user, name |-> name, permissions |-> permissions,
     expires_at |-> expires_at, is_revoked |-> FALSE, last_used_at |-> {}]

\* a name check that looks at the non-revoked rows only
NameTaken_ActiveOnly(ks, user, name) ==
    \E k \in ks : k.user_id = user /\ k.name = name /\ ~k.is_revoked

NameTaken(ks, user, name) == \E k \in ks : k.user_id = user /\ k.name = name

\* the rows the quota query counts
ActiveKeys(ks, t, user) == {k \in ks : k.user_id = user /\ ~k.is_revoked /\ k.expires_at > t}

\* a quota check that lets one more key through
QuotaReached_OffByOne(count) == count > MaxActiveKeys

QuotaReached(count) == count >= MaxActiveKeys

\* create_api_key at time t; id is the id of the new row
create_api_key(ks, t, user, name, permissions, expiry, id) ==
    IF NameTaken(ks, user, name) THEN [keys |-> ks, ret |-> "400_duplicate"]
    ELSE IF QuotaReached(Cardinality(ActiveKeys(ks, t, user))) THEN [keys |-> ks, ret |-> "400_quota"]
    ELSE [keys |-> ks \cup {NewKey(id, user, name, permissions, convert_expiry_to_datetime(t, expiry))},
          ret |-> "created"]

\* the dictionary validate_api_key returns and caches
KeyData(k) ==
    [api_key_id |-> k.id, user_id |-> k.user_id, name |-> k.name,
     permissions |-> k.permissions, type |-> "service"]

\* the cache is a set of entries, at most one for a key hash
\* an entry that is kept a minute longer
CacheEntry_Longer(hash, data, valid_until) ==
    [key_hash |-> hash, data |-> data, valid_until |-> valid_until + 1]

CacheEntry(hash, data, valid_until) == [key_hash |-> hash, data |-> data, valid_until |-> valid_until]

\* a lookup under a key the cache never holds
CachedAt_Never(ch, hash) == {}

CachedAt(ch, hash) == {e \in ch : e.key_hash = hash}

\* del API_KEY_CACHE[key_hash]
CacheDel(ch, hash) == ch \ CachedAt(ch, hash)

\* a revocation that leaves the cache alone
ScrubCache_Skip(ch, id) == ch

\* the scan of revoke_api_key and delete_api_key: every entry of that key id is removed
ScrubCache(ch, id) == {e \in ch : e.data.api_key_id # id}

NoIdentity == [kind |-> "none"]
Expired == [kind |-> "expired"]
Identity(data) == [kind |-> "identity", data |-> data]

\* validate_api_key at time t for a secret whose hash is hash
validate_api_key(ks, ch, t, hash) ==
    IF \E e \in CachedAt(ch, hash) : t < e.valid_until
    THEN [keys |-> ks, cache |-> ch, ret |-> Identity((CHOOSE e \in CachedAt(ch, hash) : TRUE).data)]
    ELSE LET ch1 == CacheDel(ch, hash)
             found == {k \in ks : k.key_hash = hash /\ ~k.is_revoked}
         IN IF found = {} THEN [keys |-> ks, cache |-> ch1, ret |-> NoIdentity]
            ELSE LET k == CHOOSE x \in found : TRUE
                 IN IF k.expires_at < t THEN [keys |-> ks, cache |-> ch1, ret |-> Expired]
                    ELSE [keys |-> (ks \ {k}) \cup {[k EXCEPT !.last_used_at = {t}]},
                          cache |-> ch1 \cup {CacheEntry(hash, KeyData(k), t + CacheTTL)},
                          ret |-> Identity(KeyData(k))]

\* the row revoke_api_key and delete_api_key look up
\* a lookup by id alone
OwnedKey_AnyOwner(ks, id, user) == {k \in ks : k.id = id}

OwnedKey(ks, id, user) == {k \in ks : k.id = id /\ k.user_id = user}

\* UPDATE api_keys SET is_revoked = true WHERE id
SetRevoked(ks, id) == {IF k.id = id THEN [k EXCEPT !.is_revoked = TRUE] ELSE k : k \in ks}

revoke_api_key(ks, ch, id, user) ==
    IF OwnedKey(ks, id, user) = {} THEN [keys |-> ks, cache |-> ch, ret |-> "404"]
    ELSE [keys |-> SetRevoked(ks, id), cache |-> ScrubCache(ch, id), ret |-> "revoked"]

\* a delete that only marks the row revoked
DeleteRow_Soft(ks, id) == SetRevoked(ks, id)

\* DELETE FROM api_keys WHERE id
DeleteRow(ks, id) == {k \in ks : k.id # id}

delete_api_key(ks, ch, id, user) ==
    IF OwnedKey(ks, id, user) = {} THEN [keys |-> ks, cache |-> ch, ret |-> "404"]
    ELSE [keys |-> DeleteRow(ks, id), cache |-> ScrubCache(ch, id), ret |-> "deleted"]

----------------------------------------------------------------------------
(* Requests of the key manager *)

\* names a request may give: one the owner has not used yet, or one of its own
FreshName(ks, user) ==
    CHOOSE n \in 1..(Cardinality(ks) + 1) :
        /\ ~NameTaken(ks, user, n)
        /\ \A m \in 1..(Cardinality(ks) + 1) : ~NameTaken(ks, user, m) => n <= m

KeyNames(ks, user) == {FreshName(ks, user)} \cup {k.name : k \in {x \in ks : x.user_id = user}}

ReadOnly == {"read"}

OneHour == [amount |-> 1, unit |-> "H"]

\* at most cap rows are ever inserted
CreateApiKey(cap, user, name, permissions, expiry) ==
    /\ issued < cap
    /\ LET r == create_api_key(keys, now, user, name, permissions, expiry, issued + 1)
       IN /\ keys' = r.keys
          /\ issued' = IF r.ret = "created" THEN issued + 1 ELSE issued
    /\ UNCHANGED <<now, walletVars, cache, sess, blacklist, users, resets, requests>>

ValidateApiKey(hash) ==
    /\ LET r == validate_api_key(keys, cache, now, hash)
       IN keys' = r.keys /\ cache' = r.cache
    /\ UNCHANGED <<now, walletVars, issued, sess, blacklist, users, resets, requests>>

RevokeApiKey(id, user) ==
    /\ LET r == revoke_api_key(keys, cache, id, user)
       IN keys' = r.keys /\ cache' = r.cache
    /\ UNCHANGED <<now, walletVars, issued, sess, blacklist, users, resets, requests>>

DeleteApiKey(id, user) ==
    /\ LET r == delete_api_key(keys, cache, id, user)
       IN keys' = r.keys /\ cache' = r.cache
    /\ UNCHANGED <<now, walletVars, issued, sess, blacklist, users, resets, requests>>

\* datetime.utcnow() has advanced to t
Tick(t) ==
    /\ now < t /\ t <= MaxTime
    /\ now' = t
    /\ UNCHANGED <<walletVars, keyVars, sess, blacklist, users, resets, requests>>

\* the instants around which the key manager's answers change; the clock jumps
\* over the time before the first expiry, in which keys only age
ExpiryInstants(ks) == {k.expires_at + d : k \in ks, d \in {0 - 1, 0, 1}}

CacheInstants(ch) == {e.valid_until + d : e \in ch, d \in {0 - 1, 0}}

NextKeys ==
    \/ \E user \in Users : \E name \in KeyNames(keys, user) :
          CreateApiKey(MaxKeys, user, name, ReadOnly, OneHour)
    \/ \E hash \in 1..MaxKeys : ValidateApiKey(hash)
    \/ \E id \in 1..MaxKeys, user \in Users : RevokeApiKey(id, user)
    \/ \E id \in 1..MaxKeys, user \in Users : DeleteApiKey(id, user)
    \/ \E t \in ExpiryInstants(keys) \cup CacheInstants(cache) :
          (\E k \in keys : t >= k.expires_at - 1) /\ Tick(t)

SpecKeys == Init /\ [][NextKeys]_vars

\* one owner filling its quota
QuotaCap == MaxActiveKeys + MaxSpareKeys

Owner == 1

NextQuota ==
    \/ \E name \in KeyNames(keys, Owner) : CreateApiKey(QuotaCap, Owner, name, ReadOnly, OneHour)
    \/ \E id \in 1..MaxSpareKeys : RevokeApiKey(id, Owner)
    \/ \E id \in 1..MaxSpareKeys : DeleteApiKey(id, Owner)
    \/ \E k \in keys, d \in {0, 1} : Tick(k.expires_at + d)

SpecQuota == Init /\ [][NextQuota]_vars

----------------------------------------------------------------------------
(* Concurrent requests on the key manager: a step per call to the persistence *)
(* layer; the cache scan runs without a call in between                       *)

\* the name query of create_api_key
CreateBegin(w, user, name) ==
    /\ sess[w] = Idle
    /\ issued < QuotaCap
    /\ IF NameTaken(keys, user, name)
       THEN UNCHANGED sess
       ELSE SetSess(w, [pc |-> "create_count", user |-> user, name |-> name])
    /\ UNCHANGED <<now, walletVars, keyVars, blacklist, users, resets, requests>>

\* the count query and the quota check
CreateCount(w) ==
    /\ sess[w].pc = "create_count"
    /\ IF QuotaReached(Cardinality(ActiveKeys(keys, now, sess[w].user)))
       THEN SetSess(w, Idle)
       ELSE SetSess(w, [sess[w] EXCEPT !.pc = "create_insert"])
    /\ UNCHANGED <<now, walletVars, keyVars, blacklist, users, resets, requests>>

\* db.add, db.commit
CreateInsert(w) ==
    /\ sess[w].pc = "create_insert"
    /\ keys' = keys \cup {NewKey(issued + 1, sess[w].user, sess[w].name, ReadOnly,
                                 convert_expiry_to_datetime(now, OneHour))}
    /\ issued' = issued + 1
    /\ SetSess(w, Idle)
    /\ UNCHANGED <<now, walletVars, cache, blacklist, users, resets, requests>>

\* the query of revoke_api_key
RevokeBegin(w, id, user) ==
    /\ sess[w] = Idle
    /\ IF OwnedKey(keys, id, user) = {}
       THEN UNCHANGED sess
       ELSE SetSess(w, [pc |-> "revoke_commit", id |-> id])
    /\ UNCHANGED <<now, walletVars, keyVars, blacklist, users, resets, requests>>

\* api_key.is_revoked = True, db.commit
RevokeCommit(w) ==
    /\ sess[w].pc = "revoke_commit"
    /\ keys' = SetRevoked(keys, sess[w].id)
    /\ SetSess(w, [sess[w] EXCEPT !.pc = "revoke_scrub"])
    /\ UNCHANGED <<now, walletVars, cache, issued, blacklist, users, resets, requests>>

\* the cache scan after db.refresh
RevokeScrub(w) ==
    /\ sess[w].pc = "revoke_scrub"
    /\ cache' = ScrubCache(cache, sess[w].id)
    /\ SetSess(w, Idle)
    /\ UNCHANGED <<now, walletVars, keys, issued, blacklist, users, resets, requests>>

\* the query of delete_api_key and the cache scan
DeleteBegin(w, id, user) ==
    /\ sess[w] = Idle
    /\ IF OwnedKey(keys, id, user) = {}
       THEN UNCHANGED <<sess, cache>>
       ELSE /\ cache' = ScrubCache(cache, id)
            /\ SetSess(w, [pc |-> "delete_commit", id |-> id])
    /\ UNCHANGED <<now, walletVars, keys, issued, blacklist, users, resets, requests>>

\* db.delete, db.commit
DeleteCommit(w) ==
    /\ sess[w].pc = "delete_commit"
    /\ keys' = DeleteRow(keys, sess[w].id)
    /\ SetSess(w, Idle)
    /\ UNCHANGED <<now, walletVars, cache, issued, blacklist, users, resets, requests>>

\* the rows after the owner's first n create_api_key calls
RECURSIVE FilledKeys(_)
FilledKeys(n) ==
    IF n = 0 THEN {}
    ELSE create_api_key(FilledKeys(n - 1), 0, Owner, n, ReadOnly, OneHour, n).keys

\* an owner one key short of its quota
InitNearQuota ==
    /\ now = 0
    /\ wallets = <<>>
    /\ txs = {}
    /\ keys = FilledKeys(MaxActiveKeys - 1)
    /\ cache = {}
    /\ issued = MaxActiveKeys - 1
    /\ sess = [w \in Workers |-> Idle]
    /\ blacklist = {}
    /\ users = {}
    /\ resets = 0
    /\ requests = [c \in Clients |-> <<>>]

NextKeysConc ==
    \/ \E w \in Workers, d \in {0, 1} : CreateBegin(w, Owner, FreshName(keys, Owner) + d)
    \/ \E w \in Workers : CreateCount(w)
    \/ \E w \in Workers : CreateInsert(w)
    \/ \E w \in Workers, id \in 1..MaxSpareKeys : RevokeBegin(w, id, Owner)
    \/ \E w \in Workers : RevokeCommit(w)
    \/ \E w \in Workers : RevokeScrub(w)
    \/ \E w \in Workers, id \in 1..MaxSpareKeys : DeleteBegin(w, id, Owner)
    \/ \E w \in Workers : DeleteCommit(w)

SpecKeysConc == InitNearQuota /\ [][NextKeysConc]_vars

----------------------------------------------------------------------------
(* Signup *)

\* accounts ever registered
MaxUsers == 3

\* one address and one name more than accounts, so that some are always free
Emails == 1..(MaxUsers + 1)
Usernames == 1..(MaxUsers + 1)

\* the password given at signup; a hash stands for the password it was made from
SignupPassword == 1
\* reset_token_hash = None, reset_token_expires_at = None
NoReset == 0
NoResetExpiry == 0 - 1

\* a signup that checks the email only
create_user_EmailOnly(us, email, username) ==
    IF \E u \in us : u.email = email THEN [users |-> us, ret |-> "400_email"]
    ELSE [users |-> us \cup {[id |-> Cardinality(us) + 1, email |-> email,
                              username |-> username, is_active |-> TRUE,
                              hashed_password |-> SignupPassword,
                              reset_token_hash |-> NoReset,
                              reset_token_expires_at |-> NoResetExpiry]},
          ret |-> "created"]

\* the id of the new row is fresh: rows are never deleted
create_user(us, email, username) ==
    IF \E u \in us : u.email = email THEN [users |-> us, ret |-> "400_email"]
    ELSE IF \E u \in us : u.username = username THEN [users |-> us, ret |-> "400_username"]
    ELSE [users |-> us \cup {[id |-> Cardinality(us) + 1, email |-> email,
                              username |-> username, is_active |-> TRUE,
                              hashed_password |-> SignupPassword,
                              reset_token_hash |-> NoReset,
                              reset_token_expires_at |-> NoResetExpiry]},
          ret |-> "created"]

\* POST /auth/signup
Signup(email, username) ==
    /\ Cardinality(users) < MaxUsers
    /\ users' = create_user(users, email, username).users
    /\ UNCHANGED <<now, walletVars, keyVars, sess, blacklist, resets, requests>>

NextSignup == \E email \in Emails, username \in Usernames : Signup(email, username)

SpecSignup == Init /\ [][NextSignup]_vars

\* the accounts of the users of the model, as signup stores them: the user table of
\* the specifications that leave accounts alone (both users registered and active)
Accounts == create_user(create_user({}, 1, 1).users, 2, 2).users

----------------------------------------------------------------------------
(* Bearer tokens and the token revocation registry *)

\* settings.ACCESS_TOKEN_EXPIRE_MINUTES
AccessTokenMinutes == 30
\* timedelta(days=1), in minutes
FallbackMinutes == HoursPerDay * MinutesPerHour
\* users log in during the first MaxLogin minutes
MaxLogin == 1
\* tokens ever recorded in the registry
MaxLogouts == 2

NoSub == 0
NoExp == 0 - 1
NoPayload == [sub |-> NoSub, exp |-> NoExp]

\* a token is the signature over its claims: its subject and its expiry
create_user_token(user, t) ==
    [sub |-> user, exp |-> t + AccessTokenMinutes, signed |-> TRUE]

\* a token signed with another secret
ForgedToken == [sub |-> 1, exp |-> AccessTokenMinutes, signed |-> FALSE]

Tokens == {create_user_token(user, t) : user \in Users, t \in 0..MaxLogin} \cup {ForgedToken}

\* the tokens that exist at t
IssuedTokens(t) == {token \in Tokens : token.exp - AccessTokenMinutes <= t}

\* the claims of a token whose signature verifies and whose expiry has not passed
decode_access_token(token, t) ==
    IF token.signed /\ t < token.exp
    THEN [sub |-> token.sub, exp |-> token.exp]
    ELSE NoPayload

\* hashlib.sha256(token.encode()).hexdigest(): one digest per token string
TokenHash(token) == <<token.sub, token.exp, token.signed>>

\* the registry is searched by the subject of the token, not by its digest
is_token_blacklisted_BySubject(bl, token) == \E e \in bl : e.token_jti[1] = token.sub

is_token_blacklisted(bl, token) == \E e \in bl : e.token_jti = TokenHash(token)

\* the registry after blacklist_token(db, token) at t
blacklist_token(bl, token, t) ==
    LET payload == decode_access_token(token, t)
    IN IF payload = NoPayload
       THEN bl
       ELSE IF \E e \in bl : e.token_jti = TokenHash(token)
       THEN bl
       ELSE bl \cup {[token_jti |-> TokenHash(token),
                      expires_at |-> IF payload.exp # NoExp
                                     THEN payload.exp
                                     ELSE t + FallbackMinutes,
                      revoked_at |-> t]}

\* "none" is the return of None, "revoked" the 401 "Token has been revoked"
get_current_user_from_token(us, bl, token, t) ==
    LET payload == decode_access_token(token, t)
    IN IF payload = NoPayload
       THEN [ret |-> "none", user |-> NoSub]
       ELSE IF payload.sub = NoSub
       THEN [ret |-> "none", user |-> NoSub]
       ELSE IF is_token_blacklisted(bl, token)
       THEN [ret |-> "revoked", user |-> NoSub]
       ELSE IF ~\E u \in us : u.id = payload.sub /\ u.is_active
       THEN [ret |-> "none", user |-> NoSub]
       ELSE [ret |-> "user", user |-> payload.sub]

\* POST /auth/logout
Logout(token) ==
    /\ token \in IssuedTokens(now)
    /\ Cardinality(blacklist) < MaxLogouts
    /\ blacklist' = blacklist_token(blacklist, token, now)
    /\ UNCHANGED <<now, walletVars, keyVars, sess, users, resets, requests>>

\* a request carrying the bearer token
ResolveToken(token) ==
    /\ token \in IssuedTokens(now)
    /\ get_current_user_from_token(Accounts, blacklist, token, now).ret \in {"none", "revoked", "user"}
    /\ UNCHANGED <<now, walletVars, keyVars, sess, blacklist, users, resets, requests>>

\* the instants of the logins and those around the expiry of a token
TokenInstants == (1..MaxLogin) \cup {token.exp + d : token \in Tokens, d \in {0 - 1, 0}}

NextAuth ==
    \/ \E token \in Tokens : Logout(token)
    \/ \E token \in Tokens : ResolveToken(token)
    \/ \E t \in TokenInstants : Tick(t)

SpecAuth == Init /\ [][NextAuth]_vars

----------------------------------------------------------------------------
(* The permission gate of the wallet routes *)

Permissions == {"read", "deposit", "transfer"}

\* the names app/dependencies/auth.py defines
AuthDependencies ==
    {"get_current_user_from_token", "get_service_from_api_key", "get_current_auth",
     "require_user", "require_service"}

\* from app.dependencies.auth import get_current_auth, require_permission
WalletRouterImports == {"get_current_auth", "require_permission"}

\* the principal get_current_auth returns for a bearer token
UserAuth(user) == [type |-> "user", user_id |-> user]

\* a request to a wallet route declared with Depends(require_permission(permission)):
\* the route exists once the import of the router module has bound its names;
\* the import raises ImportError for a name the dependencies module does not define
wallet_request(auth, permission) ==
    IF WalletRouterImports \subseteq AuthDependencies
    THEN "served"
    ELSE "ImportError"

----------------------------------------------------------------------------
(* Credential resolution of the protected routes *)

\* a request without an Authorization header
NoToken == [sub |-> NoSub, exp |-> NoExp, signed |-> FALSE]
\* a request without an x-api-key header
NoKey == 0

get_service_from_api_key(ks, ch, t, hash) ==
    IF hash = NoKey
    THEN [keys |-> ks, cache |-> ch, ret |-> NoIdentity]
    ELSE validate_api_key(ks, ch, t, hash)

\* the principal a dependency returns; type "401" is the HTTPException it raises
Refused == [type |-> "401"]

\* user is the return of get_current_user_from_token
require_user(user) == IF user.ret = "user" THEN UserAuth(user.user) ELSE Refused

\* service is the return of get_service_from_api_key
require_service(service) == IF service.kind = "identity" THEN service.data ELSE Refused

get_current_auth(user, service) ==
    IF user.ret = "user" THEN UserAuth(user.user)
    ELSE IF service.kind = "identity" THEN service.data
    ELSE Refused

\* a request to /protected/user, /protected/service or /protected/any: the
\* dependencies of the route are resolved in the order of its parameters, and
\* a dependency that raises ends the request
protected_route(route, us, bl, ks, ch, t, token, hash) ==
    LET user == IF route \in {"user", "any"} /\ token # NoToken
                THEN get_current_user_from_token(us, bl, token, t)
                ELSE [ret |-> "none", user |-> NoSub]
    IN IF user.ret = "revoked"
       THEN [keys |-> ks, cache |-> ch, ret |-> [type |-> "TokenRevoked"]]
       ELSE LET s == IF route \in {"service", "any"}
                     THEN get_service_from_api_key(ks, ch, t, hash)
                     ELSE [keys |-> ks, cache |-> ch, ret |-> NoIdentity]
            IN [keys |-> s.keys, cache |-> s.cache,
                ret |-> IF s.ret = Expired THEN [type |-> "Expired"]
                        ELSE IF route = "user" THEN require_user(user)
                        ELSE IF route = "service" THEN require_service(s.ret)
                        ELSE get_current_auth(user, s.ret)]

Protected(route, token, hash) ==
    /\ LET r == protected_route(route, Accounts, blacklist, keys, cache, now, token, hash)
       IN keys' = r.keys /\ cache' = r.cache
    /\ UNCHANGED <<now, walletVars, issued, sess, blacklist, users, resets, requests>>

\* the check of the key routes lets every authenticated principal through
NotUser_Unauthenticated(auth) == auth.type \notin {"user", "service"}

\* if auth["type"] != "user": raise HTTPException(403)
NotUser(auth) == auth.type # "user"

\* a request to /keys/create, /keys, /keys/{id}/revoke or DELETE /keys/{id}
api_keys_route(op, id, us, bl, ks, ch, t, token, hash) ==
    LET a == protected_route("any", us, bl, ks, ch, t, token, hash)
    IN IF a.ret.type \notin {"user", "service"}
       THEN [keys |-> a.keys, cache |-> a.cache, ret |-> a.ret.type]
       ELSE IF NotUser(a.ret)
       THEN [keys |-> a.keys, cache |-> a.cache, ret |-> "403"]
       ELSE IF op = "create"
       THEN [keys |-> a.keys, cache |-> a.cache, ret |-> "TypeError"]
       ELSE IF op = "revoke"
       THEN revoke_api_key(a.keys, a.cache, id, a.ret.user_id)
       ELSE IF op = "delete"
       THEN delete_api_key(a.keys, a.cache, id, a.ret.user_id)
       ELSE [keys |-> a.keys, cache |-> a.cache, ret |-> "list"]

ApiKeysRequest(op, id, token, hash) ==
    /\ LET r == api_keys_route(op, id, Accounts, blacklist, keys, cache, now, token, hash)
       IN keys' = r.keys /\ cache' = r.cache
    /\ UNCHANGED <<now, walletVars, issued, sess, blacklist, users, resets, requests>>

KeyOps == {"create", "list", "revoke", "delete"}

NextGate ==
    \/ CreateApiKey(MaxKeys, Owner, FreshName(keys, Owner), ReadOnly, OneHour)
    \/ \E token \in Tokens : Logout(token)
    \/ \E route \in {"user", "service", "any"}, token \in IssuedTokens(now) \cup {NoToken},
          hash \in 0..MaxKeys : Protected(route, token, hash)
    \/ \E t \in TokenInstants : Tick(t)

SpecGate == Init /\ [][NextGate]_vars

NextKeyRoutes ==
    \/ \E user \in Users : CreateApiKey(MaxKeys, user, FreshName(keys, user), ReadOnly, OneHour)
    \/ \E op \in KeyOps, id \in 1..MaxKeys, token \in IssuedTokens(now) \cup {NoToken},
          hash \in 0..MaxKeys : ApiKeysRequest(op, id, token, hash)
    \/ \E t \in 1..MaxLogin : Tick(t)

SpecKeyRoutes == Init /\ [][NextKeyRoutes]_vars

----------------------------------------------------------------------------
(* The ledger of two users who have their wallets, requests run to completion *)

NextLedger ==
    \/ \E user \in Users, amount \in Amounts, gatewayOk \in BOOLEAN :
          InitiateDeposit(user, amount, gatewayOk)
    \/ \E n \in DepositIds, a \in PayloadAmounts : ProcessWebhook(Delivery(n, a))
    \/ \E sender \in Users, number \in WalletNumbers, amount \in Amounts, commitOk \in BOOLEAN :
          TransferFunds(sender, number, amount, commitOk)
    \/ \E n \in DepositIds : GetDepositStatus(DepRef(n))

SpecLedger == InitWallets /\ [][NextLedger]_vars

----------------------------------------------------------------------------
(* validate_api_key interleaved with revoke_api_key and delete_api_key *)

\* validate_api_key up to its query: the cache check, then the row as the query sees it
ValidateBegin(w, hash) ==
    /\ sess[w] = Idle
    /\ IF \E e \in CachedAt(cache, hash) : now < e.valid_until
       THEN UNCHANGED <<sess, cache>>
       ELSE LET found == {k \in keys : k.key_hash = hash /\ ~k.is_revoked}
            IN /\ cache' = CacheDel(cache, hash)
               /\ IF found = {} \/ (\E k \in found : k.expires_at < now)
                  THEN UNCHANGED sess
                  ELSE SetSess(w, [pc |-> "validate_commit", hash |-> hash,
                                   row |-> CHOOSE k \in found : TRUE])
    /\ UNCHANGED <<now, walletVars, keys, issued, blacklist, users, resets, requests>>

\* api_key.last_used_at = utcnow, db.commit, then the cache write; the UPDATE of a
\* row that is gone raises and nothing is cached
ValidateCommit(w) ==
    /\ sess[w].pc = "validate_commit"
    /\ IF \E k \in keys : k.id = sess[w].row.id
       THEN /\ keys' = {IF k.id = sess[w].row.id THEN [k EXCEPT !.last_used_at = {now}] ELSE k : k \in keys}
            /\ cache' = CacheDel(cache, sess[w].hash)
                            \cup {CacheEntry(sess[w].hash, KeyData(sess[w].row), now + CacheTTL)}
       ELSE UNCHANGED <<keys, cache>>
    /\ SetSess(w, Idle)
    /\ UNCHANGED <<now, walletVars, issued, blacklist, users, resets, requests>>

NextValidateConc ==
    \/ \E w \in Workers, hash \in 1..MaxSpareKeys : ValidateBegin(w, hash)
    \/ \E w \in Workers : ValidateCommit(w)
    \/ \E w \in Workers, id \in 1..MaxSpareKeys : RevokeBegin(w, id, Owner)
    \/ \E w \in Workers : RevokeCommit(w)
    \/ \E w \in Workers : RevokeScrub(w)
    \/ \E w \in Workers, id \in 1..MaxSpareKeys : DeleteBegin(w, id, Owner)
    \/ \E w \in Workers : DeleteCommit(w)

SpecValidateConc == InitNearQuota /\ [][NextValidateConc]_vars

----------------------------------------------------------------------------
(* process_webhook and transfer_funds interleaved on one ledger *)

\* deliveries for the pending deposit of user 1, one at a time, and transfers
\* between the two wallets
NextLedgerConc ==
    \/ \E w \in Workers :
          /\ \A k \in Workers : sess[k].pc \notin {"webhook_wallet", "webhook_commit"}
          /\ WebhookBegin(w, Delivery(2, 1))
    \/ \E w \in Workers : WebhookReadWallet(w)
    \/ \E w \in Workers : WebhookCommitStep(w)
    \/ \E w \in Workers, sender \in Users, number \in WalletNumbers, amount \in Amounts :
          TransferBegin(w, sender, number, amount)
    \/ \E w \in Workers : TransferFindRecipient(w)
    \/ \E w \in Workers, commitOk \in BOOLEAN : TransferCommitStep(w, commitOk)

SpecLedgerConc == InitFunded /\ [][NextLedgerConc]_vars

----------------------------------------------------------------------------
(* Accounts: login, deactivation and the credentials of a user *)

\* authenticate_user: "401" wrong name or password, "400" inactive account
authenticate_user(us, username, password) ==
    LET found == {u \in us : u.username = username}
    IN IF found = {} \/ (\E u \in found : u.hashed_password # password)
       THEN [ret |-> "401", user |-> NoSub]
       ELSE IF \E u \in found : ~u.is_active
       THEN [ret |-> "400", user |-> NoSub]
       ELSE [ret |-> "user", user |-> (CHOOSE u \in found : TRUE).id]

\* passwords a request may give
Passwords == {SignupPassword, SignupPassword + 1}

\* POST /auth/login
Login(username, password) ==
    /\ authenticate_user(users, username, password).ret \in {"401", "400", "user"}
    /\ UNCHANGED vars

\* user.is_active = False, db.commit()
Deactivate(user) ==
    /\ users' = {IF u.id = user THEN [u EXCEPT !.is_active = FALSE] ELSE u : u \in users}
    /\ UNCHANGED <<now, walletVars, keyVars, sess, blacklist, resets, requests>>

\* a request to a protected route with the bearer token and the key it carries
Request(route, token, hash) ==
    /\ LET r == protected_route(route, users, blacklist, keys, cache, now, token, hash)
       IN /\ keys' = r.keys
          /\ cache' = r.cache
    /\ UNCHANGED <<now, walletVars, issued, sess, blacklist, users, resets, requests>>

\* timedelta(minutes=15)
ResetMinutes == 15
\* reset tokens ever issued
MaxResets == 2

\* create_password_reset_token at time t; token is secrets.token_hex(32), a value
\* never drawn before, and a hash stands for the token it was made from
create_password_reset_token(us, email, t, token) ==
    IF ~\E u \in us : u.email = email
    THEN [users |-> us, ret |-> "404", token |-> NoReset]
    ELSE [users |-> {IF u.email = email
                     THEN [u EXCEPT !.reset_token_hash = token,
                                    !.reset_token_expires_at = t + ResetMinutes]
                     ELSE u : u \in us},
          ret |-> "token", token |-> token]

\* a reset that leaves the token in place
reset_password_KeepToken(us, token, new_password, t) ==
    LET found == {u \in us : u.reset_token_hash = token}
    IN IF found = {} THEN [users |-> us, ret |-> "400"]
       ELSE IF \E u \in found : u.reset_token_expires_at < t THEN [users |-> us, ret |-> "400"]
       ELSE [users |-> {IF u \in found THEN [u EXCEPT !.hashed_password = new_password] ELSE u : u \in us},
             ret |-> "ok"]

reset_password(us, token, new_password, t) ==
    LET found == {u \in us : u.reset_token_hash = token}
    IN IF found = {} THEN [users |-> us, ret |-> "400"]
       ELSE IF \E u \in found : u.reset_token_expires_at < t THEN [users |-> us, ret |-> "400"]
       ELSE [users |-> {IF u \in found
                        THEN [u EXCEPT !.hashed_password = new_password,
                                       !.reset_token_hash = NoReset,
                                       !.reset_token_expires_at = NoResetExpiry]
                        ELSE u : u \in us},
             ret |-> "ok"]

\* POST /auth/forgot-password
ForgotPassword(email) ==
    /\ resets < MaxResets
    /\ users' = create_password_reset_token(users, email, now, resets + 1).users
    /\ resets' = IF create_password_reset_token(users, email, now, resets + 1).ret = "token"
                 THEN resets + 1 ELSE resets
    /\ UNCHANGED <<now, walletVars, keyVars, sess, blacklist, requests>>

\* POST /auth/reset-password
ResetPassword(token, new_password) ==
    /\ users' = reset_password(users, token, new_password, now).users
    /\ UNCHANGED <<now, walletVars, keyVars, sess, blacklist, resets, requests>>

InitAccounts ==
    /\ now = 0
    /\ wallets = <<>>
    /\ txs = {}
    /\ keys = {}
    /\ cache = {}
    /\ issued = 0
    /\ sess = [w \in Workers |-> Idle]
    /\ blacklist = {}
    /\ users = Accounts
    /\ resets = 0
    /\ requests = [c \in Clients |-> <<>>]

\* a key is created by its owner while the owner is active
NextAccounts ==
    \/ \E username \in Usernames, password \in Passwords : Login(username, password)
    \/ \E user \in Users : Deactivate(user)
    \/ \E u \in users :
          u.is_active /\ CreateApiKey(MaxKeys, u.id, FreshName(keys, u.id), ReadOnly, OneHour)
    \/ \E route \in {"user", "service", "any"}, token \in IssuedTokens(now) \cup {NoToken},
          hash \in 0..MaxKeys : Request(route, token, hash)
    \/ \E t \in TokenInstants : Tick(t)

SpecAccounts == InitAccounts /\ [][NextAccounts]_vars

\* the instants around the expiry of a reset token
ResetInstants(us) ==
    {u.reset_token_expires_at + d : u \in {x \in us : x.reset_token_hash # NoReset}, d \in {0 - 1, 0, 1}}

NextReset ==
    \/ \E email \in Emails : ForgotPassword(email)
    \/ \E token \in 1..MaxResets, password \in Passwords : ResetPassword(token, password)
    \/ \E username \in Usernames, password \in Passwords : Login(username, password)
    \/ \E t \in ResetInstants(users) \cup {1} : Tick(t)

SpecReset == InitAccounts /\ [][NextReset]_vars

----------------------------------------------------------------------------
(* Wallets created on demand, then funded by deposits *)

NextWalletCreate ==
    \/ \E user \in Users : CreateWallet(user)
    \/ \E user \in Users, amount \in Amounts : InitiateDeposit(user, amount, TRUE)
    \/ \E n \in DepositIds, a \in PayloadAmounts : ProcessWebhook(Delivery(n, a))

SpecWalletCreate == Init /\ [][NextWalletCreate]_vars

----------------------------------------------------------------------------
(* The rate limiter: one RateLimiter instance; the clock counts its seconds *)

\* RateLimiter(requests_limit, time_window) of the instance
requests_limit == 2
time_window == 3
\* the clock of the rate limiter stops at MaxClock
MaxClock == 5

\* a limiter that admits one request more
RateLimiter_OneMore(reqs, client, t) ==
    LET kept == SelectSeq(reqs[client], LAMBDA x : t - x < time_window)
    IN IF Len(kept) > requests_limit
       THEN [requests |-> [reqs EXCEPT ![client] = kept], ret |-> "429"]
       ELSE [requests |-> [reqs EXCEPT ![client] = Append(kept, t)], ret |-> "ok"]

\* RateLimiter.__call__ for a request of client at time t; a client not seen yet
\* has the empty list
RateLimiter(reqs, client, t) ==
    LET kept == SelectSeq(reqs[client], LAMBDA x : t - x < time_window)
    IN IF Len(kept) >= requests_limit
       THEN [requests |-> [reqs EXCEPT ![client] = kept], ret |-> "429"]
       ELSE [requests |-> [reqs EXCEPT ![client] = Append(kept, t)], ret |-> "ok"]

\* a request to a rate-limited route
Limited(client) ==
    /\ requests' = RateLimiter(requests, client, now).requests
    /\ UNCHANGED <<now, walletVars, keyVars, sess, blacklist, users, resets>>

NextLimiter ==
    \/ \E client \in Clients : Limited(client)
    \/ \E t \in 1..MaxClock : Tick(t)

SpecLimiter == Init /\ [][NextLimiter]_vars

----------------------------------------------------------------------------
(* Claims on the sequential wallet ledger *)

\* the rows of ts on a wallet, by type
RowsOf(ts, wallet, type) == {t \in ts : t.wallet = wallet /\ t.type = type}

\* C1: a transfer_funds call either debits the sender and credits the recipient by
\* exactly the amount and adds exactly the two success rows of that amount, or it
\* changes no balance and adds no row; a failed commit leaves the second shape.
C1_TransferAtomic ==
    \A sender \in Users, number \in WalletNumbers, amount \in Amounts, commitOk \in BOOLEAN :
        FreshIds(txs, "TRF", TransferIds) # {} =>
            LET r == transfer_funds(wallets, txs, sender, number, amount,
                                    FreshId(txs, "TRF", TransferIds), commitOk)
                new == r.txs \ txs
                Unchanged == r.wallets = wallets /\ r.txs = txs
                Transferred ==
                    /\ sender \in DOMAIN wallets
                    /\ DOMAIN r.wallets = DOMAIN wallets
                    /\ txs \subseteq r.txs
                    /\ Cardinality(new) = 2
                    /\ \E recipient \in DOMAIN wallets \ {sender} :
                          /\ r.wallets[sender].balance + amount = wallets[sender].balance
                          /\ r.wallets[recipient].balance - amount = wallets[recipient].balance
                          /\ r.wallets[sender].number = wallets[sender].number
                          /\ r.wallets[recipient].number = wallets[recipient].number
                          /\ \A w \in DOMAIN wallets \ {sender, recipient} : r.wallets[w] = wallets[w]
                          /\ \E out \in new, in \in new :
                                /\ out.type = "transfer_out" /\ out.wallet = sender
                                /\ in.type = "transfer_in" /\ in.wallet = recipient
                                /\ out.status = "success" /\ in.status = "success"
                                /\ out.amount = amount /\ in.amount = amount
            IN /\ Transferred \/ Unchanged
               /\ r.ret = "success" <=> Transferred
               /\ ~commitOk => Unchanged

\* a transfer has been committed
C1_Witness ==
    \E out \in txs, in \in txs :
        /\ out.type = "transfer_out" /\ in.type = "transfer_in"
        /\ out.ref.n = in.ref.n /\ out.wallet # in.wallet
        /\ wallets[in.wallet].balance >= in.amount

\* the payload's amount is exactly the stored amount
ExactAmount(t, p) == t.amount = p.amount * Scale

\* C3: two successive process_webhook calls with the same charge.success payload, for
\* a pending deposit of that amount, credit the wallet exactly once: both return
\* true and the second changes neither a balance nor a transaction.
C3_WebhookIdempotent ==
    \A p \in Payloads : \A t \in FindTx(txs, p.ref) :
        (~IgnoredPayload(p) /\ t.type = "deposit" /\ t.status = "pending" /\ ExactAmount(t, p)) =>
            LET first == process_webhook(wallets, txs, p)
                second == process_webhook(first.wallets, first.txs, p)
            IN /\ first.ret /\ second.ret
               /\ first.wallets[t.wallet].balance = wallets[t.wallet].balance + t.amount
               /\ \A x \in FindTx(first.txs, p.ref) : x.status = "success"
               /\ second.wallets = first.wallets
               /\ second.txs = first.txs

\* a deposit has been credited by a webhook while another one is still pending
C3_Witness ==
    /\ \E t \in txs : t.type = "deposit" /\ t.status = "success" /\ "processed_at" \in t.meta
                        /\ wallets[t.wallet].balance = t.amount
    /\ \E p \in Payloads : \E t \in FindTx(txs, p.ref) :
          ~IgnoredPayload(p) /\ t.type = "deposit" /\ t.status = "pending" /\ ExactAmount(t, p)

\* C5: a transaction's status changes only from pending; success and failed are
\* terminal, so a deposit once failed is never marked success (and credited).
C5_StatusTerminal ==
    [][\A t \in txs : \A x \in txs' :
          (x.ref = t.ref /\ x.status # t.status) => t.status = "pending"]_vars

\* C6: a charge.success webhook for a pending deposit whose payload amount differs
\* from the stored amount returns false, changes no balance and marks the
\* transaction failed with the mismatch recorded.
C6_MismatchFails ==
    \A p \in Payloads : \A t \in FindTx(txs, p.ref) :
        (~IgnoredPayload(p) /\ t.type = "deposit" /\ t.status = "pending" /\ ~ExactAmount(t, p)) =>
            LET r == process_webhook(wallets, txs, p)
            IN /\ ~r.ret
               /\ r.wallets = wallets
               /\ \A x \in FindTx(r.txs, p.ref) : x.status = "failed" /\ "error" \in x.meta

\* the ledger is as it was before the call that returned r
LedgerUnchanged(r) == r.wallets = wallets /\ r.txs = txs

\* C11: transfer_funds to a wallet number that no wallet has fails with 404 (recipient
\* not found), to the sender's own number with 400 (self transfer); either way no
\* balance and no transaction row changes.
C11_BadRecipientNoChange ==
    \A sender \in DOMAIN wallets, number \in WalletNumbers, amount \in Amounts,
       n \in TransferIds, commitOk \in BOOLEAN :
        LET r == transfer_funds(wallets, txs, sender, number, amount, n, commitOk)
        IN /\ (\A w \in DOMAIN wallets : wallets[w].number # number) =>
                  r.ret = "404_recipient" /\ LedgerUnchanged(r)
           /\ wallets[sender].number = number =>
                  r.ret = "400_self" /\ LedgerUnchanged(r)

\* two wallets, one of them with enough money for any transfer
C11_Witness ==
    /\ Cardinality(DOMAIN wallets) = 2
    /\ \E sender \in DOMAIN wallets :
          /\ \A amount \in Amounts : wallets[sender].balance >= amount
          /\ wallets[sender].number # sender

\* C12: transfer_funds to another existing wallet fails with 400 (insufficient balance)
\* exactly when the sender's balance is less than the amount, and then changes
\* nothing; a committed transfer of the whole balance succeeds and leaves zero.
C12_InsufficientBalance ==
    \A sender \in DOMAIN wallets, recipient \in DOMAIN wallets, amount \in Amounts,
       n \in TransferIds, commitOk \in BOOLEAN :
        sender # recipient =>
            LET r == transfer_funds(wallets, txs, sender, wallets[recipient].number, amount, n, commitOk)
            IN /\ r.ret = "400_insufficient" <=> wallets[sender].balance < amount
               /\ r.ret = "400_insufficient" => LedgerUnchanged(r)
               /\ (wallets[sender].balance = amount /\ commitOk) =>
                     r.ret = "success" /\ r.wallets[sender].balance = 0

\* a sender whose balance is one of the amounts and less than another
C12_Witness ==
    /\ Cardinality(DOMAIN wallets) = 2
    /\ \E sender \in DOMAIN wallets, a \in Amounts, b \in Amounts :
          wallets[sender].balance = a /\ a < b

\* the transaction t after a webhook has credited it
Credited(t) ==
    [t EXCEPT !.status = "success", !.meta = t.meta \cup {"paystack_reference", "processed_at"}]

\* the effect of a matching webhook on a pending deposit, in every state
C13_Effect ==
    \A p \in Payloads : \A t \in FindTx(txs, p.ref) :
        (~IgnoredPayload(p) /\ t.type = "deposit" /\ t.status = "pending" /\ ExactAmount(t, p)) =>
            LET r == process_webhook(wallets, txs, p)
            IN /\ r.ret
               /\ r.wallets = [wallets EXCEPT ![t.wallet].balance = @ + t.amount]
               /\ r.txs = (txs \ {t}) \cup {Credited(t)}
               /\ "email" \in Credited(t).meta

\* in a step, a deposit becomes success exactly when its wallet is credited its amount
C13_OneCommit ==
    /\ \A t \in txs :
          (t.type = "deposit" /\ t.status # "success"
              /\ \E x \in txs' : x.ref = t.ref /\ x.status = "success") =>
                 wallets'[t.wallet].balance = wallets[t.wallet].balance + t.amount
    /\ \A w \in DOMAIN wallets :
          (wallets'[w].balance # wallets[w].balance /\ {x.ref : x \in txs'} = {x.ref : x \in txs}) =>
              \E t \in txs : /\ t.type = "deposit" /\ t.wallet = w /\ t.status # "success"
                             /\ \E x \in txs' : x.ref = t.ref /\ x.status = "success"

\* C13: a charge.success webhook with the reference and the amount of a pending deposit
\* returns true, marks it success, adds exactly its amount to its wallet, keeps the
\* metadata of the initiation and adds the gateway's id, and changes nothing else; the
\* status and the credit change in the same step.
C13_WebhookCredits == []C13_Effect /\ [][C13_OneCommit]_vars

\* a deposit credited by a webhook, with the metadata of its initiation, beside
\* another wallet and another transaction
C13_Witness ==
    /\ Cardinality(DOMAIN wallets) = 2
    /\ \E t \in txs, x \in txs :
          /\ t.type = "deposit" /\ t.status = "success" /\ x.ref # t.ref
          /\ {"email", "paystack_reference"} \subseteq t.meta
          /\ wallets[t.wallet].balance = t.amount

C15_NeverRaises ==
    \A p \in Payloads : process_webhook(wallets, txs, p).why # "AttributeError"

Refs(ts) == {t.ref : t \in ts}

\* while the gateway call is in flight the request's row is there, and references are unique
C16_RowKept ==
    /\ \A w \in Workers :
          sess[w].pc \in {"deposit_gateway", "deposit_done"} => sess[w].ref \in Refs(txs)
    /\ \A t \in txs, x \in txs : t.ref = x.ref => t = x

\* the two halves of initiate_deposit, as steps
C16_Steps ==
    \A w \in Workers :
        /\ (sess[w] = Idle /\ sess'[w].pc = "deposit_gateway") =>
              /\ wallets' = wallets
              /\ sess'[w].ref \notin Refs(txs)
              /\ \E t \in txs' :
                    /\ txs' = txs \cup {t}
                    /\ t.ref = sess'[w].ref /\ t.type = "deposit" /\ t.status = "pending"
        /\ (sess[w].pc = "deposit_gateway" /\ sess'[w].pc = "deposit_done") =>
              /\ wallets' = wallets
              /\ \A t \in txs :
                    IF t.ref = sess[w].ref /\ sess'[w].ret = "500"
                    THEN [t EXCEPT !.status = "failed"] \in txs'
                    ELSE t \in txs'
              /\ Cardinality(txs') = Cardinality(txs)

\* C16: initiate_deposit commits exactly one new pending deposit row with a fresh
\* reference before the gateway call and changes no balance; when the gateway call
\* fails the row is kept, with status failed, and the error goes to the caller; when
\* it succeeds the row is left as it is.
C16_DepositRow == []C16_RowKept /\ [][C16_Steps]_vars

\* a gateway call has failed and its row is there, marked failed, beside a credited one
C16_Witness ==
    /\ \E w \in Workers : /\ sess[w].pc = "deposit_done" /\ sess[w].ret = "500"
                          /\ \E t \in txs : t.ref = sess[w].ref /\ t.status = "failed"
    /\ \E w \in DOMAIN wallets : wallets[w].balance > 0

\* C17: the first wallet operation of a user who has no wallet yet creates the wallet
\* instead of failing, so that every user has exactly one wallet when one is needed.
C17_WalletOnFirstNeed ==
    \A user \in Users :
        /\ get_wallet_by_user(wallets, user).ret = "wallet"
        /\ user \in DOMAIN get_wallet_by_user(wallets, user).wallets
        /\ \A amount \in Amounts, n \in DepositIds :
              initiate_deposit(wallets, txs, user, amount, n, TRUE).ret # "404"

----------------------------------------------------------------------------
(* Claims on concurrent requests on the wallet ledger *)

RECURSIVE SumAmounts(_)
SumAmounts(rows) ==
    IF rows = {} THEN 0
    ELSE LET t == CHOOSE x \in rows : TRUE IN t.amount + SumAmounts(rows \ {t})

SuccessDeposits(ts, wallet) == {t \in RowsOf(ts, wallet, "deposit") : t.status = "success"}

\* C2: under concurrent transfer_funds calls no balance is negative and no wallet
\* has sent more, in its successful transfers, than it has received (its credited
\* deposits and incoming transfers): no balance is spent twice.
C2_NoDoubleSpend ==
    \A w \in DOMAIN wallets :
        /\ wallets[w].balance >= 0
        /\ SumAmounts(RowsOf(txs, w, "transfer_out"))
              <= SumAmounts(SuccessDeposits(txs, w)) + SumAmounts(RowsOf(txs, w, "transfer_in"))

\* C4: under concurrent deliveries of the same charge.success payload the wallet is
\* credited the deposit's amount once: its balance never exceeds the sum of its
\* credited deposits, and equals it once the deliveries are done.
C4_SingleCredit ==
    \A w \in DOMAIN wallets :
        /\ wallets[w].balance <= SumAmounts(SuccessDeposits(txs, w))
        /\ (\A k \in Workers : sess[k] = Idle) =>
              wallets[w].balance = SumAmounts(SuccessDeposits(txs, w))

----------------------------------------------------------------------------
(* Claims on the key manager *)

\* C7: once a key is revoked, validate_api_key with its secret returns no identity,
\* also within 5 minutes of a successful validation that cached the key.
C7_RevokedNeverValidates ==
    \A k \in keys :
        k.is_revoked => validate_api_key(keys, cache, now, k.key_hash).ret.kind # "identity"

\* a key was revoked less than 5 minutes after a validation cached it
C7_Witness ==
    \E k \in keys : k.is_revoked /\ \E t \in k.last_used_at : now < t + CacheTTL

\* C8: validate_api_key with the secret of a non-revoked key whose expiry time has
\* passed signals Expired, whatever the cache holds.
C8_ExpiredSignalled ==
    \A k \in keys :
        (~k.is_revoked /\ k.expires_at < now) =>
            validate_api_key(keys, cache, now, k.key_hash).ret.kind = "expired"

\* C18: after delete_api_key by the owner the key's row is gone, the cache holds no
\* entry of the key's id, and validate_api_key with its secret returns no identity,
\* also within 5 minutes of a validation that cached it; this stays so afterwards.
C18_DeletedNeverValidates ==
    /\ \A k \in keys :
          LET r == delete_api_key(keys, cache, k.id, k.user_id)
          IN /\ r.ret = "deleted"
             /\ \A x \in r.keys : x.id # k.id
             /\ \A e \in r.cache : e.data.api_key_id # k.id
             /\ validate_api_key(r.keys, r.cache, now, k.key_hash).ret.kind = "none"
    /\ \A id \in 1..issued :
          (\A x \in keys : x.id # id) =>
              /\ \A e \in cache : e.data.api_key_id # id /\ e.key_hash # id
              /\ validate_api_key(keys, cache, now, id).ret.kind = "none"

\* a key has been deleted, and another one is in the cache and still served from it
C18_Witness ==
    /\ \E id \in 1..issued : \A x \in keys : x.id # id
    /\ \E k \in keys, e \in cache : e.data.api_key_id = k.id /\ now < e.valid_until

\* the keys of a user that are non-revoked and unexpired at time t
Usable(ks, t, user) == {k \in ks : k.user_id = user /\ ~k.is_revoked /\ t < k.expires_at}

\* create_api_key by user with a fresh name, after the rows ks
CreateFresh(ks, user) ==
    create_api_key(ks, now, user, FreshName(ks, user), ReadOnly, OneHour, issued + 1)

\* r created exactly one key, of that user, after the rows ks
CreatedOne(ks, user, r) ==
    /\ r.ret = "created"
    /\ ks \subseteq r.keys
    /\ \E k \in r.keys \ ks :
          /\ r.keys = ks \cup {k}
          /\ k.user_id = user /\ ~k.is_revoked /\ now < k.expires_at

\* C9: with 5 non-revoked unexpired keys, create_api_key with a fresh name fails with
\* the quota error and adds no row; once one of the 5 is revoked or deleted it
\* succeeds; with fewer than 5 such keys it succeeds however many revoked or
\* expired keys the owner has.
C9_Quota ==
    \A user \in Users :
        LET usable == Usable(keys, now, user)
        IN /\ Cardinality(usable) >= MaxActiveKeys =>
                /\ CreateFresh(keys, user).ret = "400_quota"
                /\ CreateFresh(keys, user).keys = keys
           /\ Cardinality(usable) = MaxActiveKeys =>
                \A k \in usable :
                    /\ CreatedOne(revoke_api_key(keys, cache, k.id, user).keys, user,
                                  CreateFresh(revoke_api_key(keys, cache, k.id, user).keys, user))
                    /\ CreatedOne(delete_api_key(keys, cache, k.id, user).keys, user,
                                  CreateFresh(delete_api_key(keys, cache, k.id, user).keys, user))
           /\ Cardinality(usable) < MaxActiveKeys => CreatedOne(keys, user, CreateFresh(keys, user))

\* an owner with 5 usable keys, a revoked key and an expired key
C9_Witness ==
    /\ Cardinality(Usable(keys, now, Owner)) = MaxActiveKeys
    /\ \E k \in keys : k.user_id = Owner /\ k.is_revoked
    /\ \E k \in keys : k.user_id = Owner /\ ~k.is_revoked /\ k.expires_at < now

\* C10: under concurrent create_api_key, revoke_api_key and delete_api_key requests
\* no user ever owns more than 5 keys that are non-revoked and unexpired.
C10_AtMostFiveActive ==
    \A user \in Users : Cardinality(Usable(keys, now, user)) <= MaxActiveKeys

----------------------------------------------------------------------------
(* Claims on the token revocation registry *)

\* the registry holds the digest of the token
Recorded(token) == \E e \in blacklist : e.token_jti = TokenHash(token)

\* C19 as stated: once blacklist_token has recorded a token, every later
\* resolution of that token is rejected with TokenRevoked, in every later state.
C19_RevokedForever ==
    \A token \in Tokens :
        Recorded(token)
            => get_current_user_from_token(Accounts, blacklist, token, now).ret = "revoked"

C19_Rejected ==
    \A token \in Tokens :
        LET r == get_current_user_from_token(Accounts, blacklist, token, now)
        IN /\ Recorded(token) /\ now < token.exp => r.ret = "revoked"
           /\ Recorded(token) /\ now >= token.exp => r.ret = "none"
           /\ ~Recorded(token) => r = get_current_user_from_token(Accounts, {}, token, now)

C19_AppendOnly == blacklist \subseteq blacklist'

\* C19: once blacklist_token has recorded a still-valid token, every later
\* resolution of that token before its expiry is rejected with TokenRevoked and
\* every resolution from its expiry on returns no user; no step removes or
\* alters a registry entry, and the other tokens resolve as with an empty registry.
C19_RevokedUntilExpiry == []C19_Rejected /\ [][C19_AppendOnly]_vars

C19_Witness ==
    \E token, other \in Tokens :
        /\ Recorded(token) /\ now < token.exp
        /\ get_current_user_from_token(Accounts, blacklist, token, now).ret = "revoked"
        /\ ~Recorded(other)
        /\ get_current_user_from_token(Accounts, blacklist, other, now).ret = "user"

----------------------------------------------------------------------------
(* Claims on the permission gate *)

\* C20: a principal resolved from an API key performs a wallet operation (read,
\* deposit, transfer) only if the permission set of the key holds the permission
\* of the operation, and is refused as Unauthorized otherwise; a principal
\* resolved from a bearer token performs all three operations.
C20_PermissionGate ==
    \A permission \in Permissions :
        /\ \A user \in Users : wallet_request(UserAuth(user), permission) = "served"
        /\ \A k \in keys :
              LET r == validate_api_key(keys, cache, now, k.key_hash).ret
              IN r.kind = "identity"
                    => wallet_request(r.data, permission)
                          = IF permission \in r.data.permissions
                            THEN "served"
                            ELSE "Unauthorized"

----------------------------------------------------------------------------
(* Claims on credential resolution *)

\* the token is a valid, non-revoked bearer token of an active user
ValidToken(token) ==
    /\ token # NoToken /\ token.signed /\ now < token.exp
    /\ token.sub \in Users
    /\ ~Recorded(token)

\* the secret is one validate_api_key accepts
ValidKey(hash) ==
    hash # NoKey /\ validate_api_key(keys, cache, now, hash).ret.kind = "identity"

\* C21: a user-only route admits a request exactly when its bearer token is
\* valid, whatever key comes with it; a service-only route exactly when its API
\* key is valid, whatever token comes with it; an either-credential route exactly
\* when one of the two is valid; a request with neither credential is refused by
\* all three.
C21_CredentialResolution ==
    \A token \in IssuedTokens(now) \cup {NoToken}, hash \in 0..MaxKeys :
        LET ret(route) == protected_route(route, Accounts, blacklist, keys, cache, now, token, hash).ret
            admitted(route) == ret(route).type \in {"user", "service"}
        IN /\ admitted("user") <=> ValidToken(token)
           /\ admitted("service") <=> ValidKey(hash)
           /\ admitted("any") <=> (ValidToken(token) \/ ValidKey(hash))
           /\ token = NoToken /\ hash = NoKey
                 => \A route \in {"user", "service", "any"} : ret(route) = Refused

----------------------------------------------------------------------------
(* Claims on the key routes *)

\* the requests whose principal is resolved from the API key
KeyPrincipal(token, hash) == ~ValidToken(token) /\ ValidKey(hash)

\* C22 as stated: issuing, listing, revoking and deleting keys are refused as
\* Forbidden for a principal authenticated by API key, and the refused request
\* leaves the key records and the cache unchanged.
C22_RefusedNoChange ==
    \A op \in KeyOps, id \in 1..MaxKeys, token \in IssuedTokens(now) \cup {NoToken},
          hash \in 0..MaxKeys :
        LET r == api_keys_route(op, id, Accounts, blacklist, keys, cache, now, token, hash)
        IN KeyPrincipal(token, hash)
              => r.ret = "403" /\ r.keys = keys /\ r.cache = cache

\* the key records of ks2 are those of ks, but for the last-used time of the key of hash
SameButLastUsed(ks, ks2, hash) ==
    /\ Cardinality(ks2) = Cardinality(ks)
    /\ \A k \in ks : \E k2 \in ks2 :
          /\ [k2 EXCEPT !.last_used_at = {}] = [k EXCEPT !.last_used_at = {}]
          /\ k2.last_used_at # k.last_used_at => k.key_hash = hash

\* the cache entries of ch2 are those of ch, but for the entry of hash
SameButEntry(ch, ch2, hash) ==
    {e \in ch : e.key_hash # hash} = {e \in ch2 : e.key_hash # hash}

\* C22: issuing, listing, revoking and deleting keys are refused as Forbidden
\* for a principal authenticated by API key; the refused request adds, removes
\* and revokes no key record and changes only the last-used time and the cache
\* entry of the key it presents; a request that adds, removes or revokes a key
\* record carries a valid bearer token.
C22_OnlyUsersManage ==
    \A op \in KeyOps, id \in 1..MaxKeys, token \in IssuedTokens(now) \cup {NoToken},
          hash \in 0..MaxKeys :
        LET r == api_keys_route(op, id, Accounts, blacklist, keys, cache, now, token, hash)
        IN /\ KeyPrincipal(token, hash)
                 => /\ r.ret = "403"
                    /\ SameButLastUsed(keys, r.keys, hash)
                    /\ SameButEntry(cache, r.cache, hash)
           /\ ~SameButLastUsed(keys, r.keys, hash) => ValidToken(token)

\* an active key of another user, and a key principal that asks to revoke it
C22_Witness ==
    \E k, own \in keys :
        /\ k.user_id # own.user_id /\ ~k.is_revoked /\ ~own.is_revoked
        /\ KeyPrincipal(NoToken, own.key_hash)
        /\ api_keys_route("revoke", k.id, Accounts, blacklist, keys, cache, now, NoToken, own.key_hash).ret = "403"
        /\ own.last_used_at # {}

----------------------------------------------------------------------------
(* Claims on the names and the owners of keys *)

\* the key records of user named name
Named(user, name) == {k \in keys : k.user_id = user /\ k.name = name}

\* C23: no owner has two key records of the same name; create_api_key answers
\* DuplicateName and adds nothing when the owner has a record of that name,
\* active, revoked or expired, and is not refused for the name when the owner
\* has none, whatever the other owners hold.
C23_UniqueNames ==
    \A user \in Users, name \in 1..(MaxKeys + 1) :
        LET r == create_api_key(keys, now, user, name, ReadOnly, OneHour, issued + 1)
        IN /\ Cardinality(Named(user, name)) <= 1
           /\ Named(user, name) # {} => r.ret = "400_duplicate" /\ r.keys = keys
           /\ Named(user, name) = {} => r.ret # "400_duplicate"

\* a revoked key whose name another owner uses too
C23_Witness ==
    \E k \in keys : \E other \in keys :
        /\ k.is_revoked /\ other.user_id # k.user_id /\ other.name = k.name
        /\ create_api_key(keys, now, k.user_id, k.name, ReadOnly, OneHour, issued + 1).ret
              = "400_duplicate"

\* C24: revoke_api_key and delete_api_key with a key id that does not exist or
\* that belongs to another owner answer NotFound and leave every key record and
\* every cache entry as they are.
C24_ForeignKeyNotFound ==
    \A id \in 1..(MaxKeys + 1), user \in Users :
        (~\E k \in keys : k.id = id /\ k.user_id = user)
            => /\ revoke_api_key(keys, cache, id, user)
                     = [keys |-> keys, cache |-> cache, ret |-> "404"]
               /\ delete_api_key(keys, cache, id, user)
                     = [keys |-> keys, cache |-> cache, ret |-> "404"]

\* a cached, active key of one user, which the other user asks to revoke
C24_Witness ==
    \E k \in keys, user \in Users :
        /\ k.user_id # user /\ ~k.is_revoked
        /\ \E e \in cache : e.data.api_key_id = k.id
        /\ revoke_api_key(keys, cache, k.id, user).ret = "404"

\* the cache answers a validation of hash now
CacheHit(hash) == \E e \in cache : e.key_hash = hash /\ now < e.valid_until

\* C25: a validate_api_key call answered from the cache changes no key record,
\* so the last-used time of a cached key is the time of the validation that
\* cached it; the only key record a validation changes is the last-used time of
\* the validated key, on a cache miss that succeeds.
C25_CacheHitNoWrite ==
    /\ \A e \in cache, k \in keys :
          e.data.api_key_id = k.id => k.last_used_at = {e.valid_until - CacheTTL}
    /\ \A hash \in 1..MaxKeys :
          LET r == validate_api_key(keys, cache, now, hash)
          IN /\ CacheHit(hash) => r.keys = keys /\ r.cache = cache
             /\ r.keys # keys
                   => /\ ~CacheHit(hash) /\ r.ret.kind = "identity"
                      /\ \E k \in keys :
                            /\ k.key_hash = hash
                            /\ r.keys = (keys \ {k}) \cup {[k EXCEPT !.last_used_at = {now}]}

\* a key validated from the cache later than the validation that cached it
C25_Witness ==
    \E e \in cache, k \in keys :
        /\ e.data.api_key_id = k.id /\ CacheHit(k.key_hash)
        /\ now > e.valid_until - CacheTTL
        /\ validate_api_key(keys, cache, now, k.key_hash).ret.kind = "identity"

----------------------------------------------------------------------------
(* Claims on the rows of the ledger *)

\* the rows of the other side of the transfer row t
Partners(t) ==
    {u \in txs : /\ u.ref = TrfRef(t.ref.n, IF t.ref.side = "OUT" THEN "IN" ELSE "OUT")
                 /\ u.type = IF t.type = "transfer_out" THEN "transfer_in" ELSE "transfer_out"}

\* C26: transfer rows come in linked pairs: every transfer_out row of reference
\* R-OUT has exactly one transfer_in row of reference R-IN, of the same amount,
\* with status success, on another wallet, and conversely; no two rows carry
\* the same reference.
C26_LinkedPairs ==
    /\ \A t \in txs :
          t.type \in {"transfer_out", "transfer_in"}
             => /\ t.ref.kind = "TRF" /\ t.status = "success"
                /\ t.ref.side = IF t.type = "transfer_out" THEN "OUT" ELSE "IN"
                /\ Cardinality(Partners(t)) = 1
                /\ \A u \in Partners(t) :
                      u.amount = t.amount /\ u.status = "success" /\ u.wallet # t.wallet
    /\ \A t, u \in txs : t.ref = u.ref => t = u

\* two transfers have been committed
C26_Witness ==
    \E t, u \in txs : t.type = "transfer_out" /\ u.type = "transfer_out" /\ t # u

\* a step that inserts a deposit row leaves the balances alone, and a step that
\* raises a balance either sets a deposit of that wallet to success and adds its
\* amount, or inserts a transfer_in row on that wallet
C27_Steps ==
    /\ (\E t \in txs' : t.type = "deposit" /\ t.ref \notin Refs(txs)) => wallets' = wallets
    /\ \A w \in DOMAIN wallets :
          wallets'[w].balance > wallets[w].balance
             => \/ \E t \in txs :
                      /\ t.type = "deposit" /\ t.wallet = w /\ t.status # "success"
                      /\ \E x \in txs' : x.ref = t.ref /\ x.status = "success"
                      /\ wallets'[w].balance = wallets[w].balance + t.amount
                \/ \E u \in txs' \ txs : u.type = "transfer_in" /\ u.wallet = w

\* C27: a status check changes no balance and no transaction status, and the
\* amount of a deposit is added to a wallet only by the webhook that sets the
\* deposit to success, never by initiate_deposit or by a status check.
C27_CreditOnlyByWebhook == [][C27_Steps]_vars

\* a credited deposit next to an initiated one whose wallet was never credited
C27_Witness ==
    \E t, u \in txs :
        /\ t.type = "deposit" /\ t.status = "success"
        /\ u.type = "deposit" /\ u.status = "pending"
        /\ wallets[u.wallet].balance = 0
        /\ get_deposit_status(txs, u.ref) = "pending"

----------------------------------------------------------------------------
(* Claims on signup *)

\* C28: no two users share an email and no two users share a username; a signup
\* whose email or username is taken is rejected and leaves the users unchanged,
\* and one whose email and username are both free adds one user.
C28_UniqueUsers ==
    /\ \A u, v \in users : (u.email = v.email \/ u.username = v.username) => u = v
    /\ \A email \in Emails, username \in Usernames :
          LET r == create_user(users, email, username)
              taken == \E u \in users : u.email = email \/ u.username = username
          IN /\ taken => r.ret \in {"400_email", "400_username"} /\ r.users = users
             /\ ~taken => /\ r.ret = "created"
                          /\ \E u \in r.users :
                                /\ u \notin users /\ r.users = users \cup {u}
                                /\ u.email = email /\ u.username = username

\* two users, a free email and a name that is taken
C28_Witness ==
    /\ Cardinality(users) >= 2
    /\ \E email \in Emails, u \in users :
          /\ \A v \in users : v.email # email
          /\ create_user(users, email, u.username).ret = "400_username"

\* the sum of the balances of the wallets of owners
RECURSIVE SumBalances(_, _)
SumBalances(ws, owners) ==
    IF owners = {} THEN 0
    ELSE LET w == CHOOSE x \in owners : TRUE
         IN ws[w].balance + SumBalances(ws, owners \ {w})

\* C29: after any sequence of requests run to completion, the balance of every
\* wallet is the sum of its success deposits plus the sum of its transfer_in
\* rows minus the sum of its transfer_out rows, and the balances add up to the
\* sum of all success deposits.
C29_BalanceIsLedger ==
    /\ \A w \in DOMAIN wallets :
          wallets[w].balance = SumAmounts(SuccessDeposits(txs, w))
                                  + SumAmounts(RowsOf(txs, w, "transfer_in"))
                                  - SumAmounts(RowsOf(txs, w, "transfer_out"))
    /\ SumBalances(wallets, DOMAIN wallets)
          = SumAmounts({t \in txs : t.type = "deposit" /\ t.status = "success"})

\* a wallet with a credited deposit of 1.50 that has sent and received a transfer
C29_Witness ==
    \E w \in DOMAIN wallets :
        /\ \E t \in SuccessDeposits(txs, w) : t.amount % Scale # 0
        /\ RowsOf(txs, w, "transfer_in") # {}
        /\ RowsOf(txs, w, "transfer_out") # {}


\* C30: once a validate_api_key call and a revoke_api_key or delete_api_key call on
\* the same key have both finished, the cache holds no entry for that key and a
\* validate_api_key call that starts afterwards returns no identity for it
C30_NoStaleEntry ==
    (\A w \in Workers : sess[w] = Idle) =>
        \A id \in 1..MaxSpareKeys :
            (~\E k \in keys : k.id = id /\ ~k.is_revoked) =>
                /\ ScrubCache(cache, id) = cache
                /\ validate_api_key(keys, cache, now, id).ret.kind # "identity"

----------------------------------------------------------------------------
(* Claims of the last group *)

\* C31: a deposit credited by a charge.success webhook while initiate_deposit is
\* suspended on the gateway call stays success when the gateway call fails, and the
\* wallet is credited its amount once, also after the webhook is delivered again:
\* no step of initiate_deposit takes a row out of success, and no wallet holds more
\* than the amounts of its deposit rows
C31_CreditedOnce ==
    /\ [](\A w \in DOMAIN wallets : wallets[w].balance <= SumAmounts(RowsOf(txs, w, "deposit")))
    /\ [][\A k \in Workers : sess[k].pc = "deposit_gateway" =>
             \A t \in txs : (t.ref = sess[k].ref /\ t.status = "success") =>
                 \E u \in txs' : u.ref = t.ref /\ u.status = "success"]_vars


\* C32: a cache entry is served only while less than 5 minutes have passed since the
\* validation that created it. The entry's lifetime ends CacheTTL after the miss
\* that stored it (the key's last-used time); before that instant validate_api_key
\* returns the cached identity and leaves the cache, the lifetime included, as it
\* is; at or after it validate_api_key removes the entry, answers as it would on an
\* empty cache, and an entry it stores starts a new lifetime.
C32_FixedLifetime ==
    \A e \in cache :
        LET r == validate_api_key(keys, cache, now, e.key_hash)
        IN  /\ \E k \in keys : k.id = e.data.api_key_id /\ k.last_used_at = {e.valid_until - CacheTTL}
            /\ IF now < e.valid_until
               THEN r.ret = Identity(e.data) /\ r.cache = cache /\ r.keys = keys
               ELSE /\ e \notin r.cache
                    /\ r.ret = validate_api_key(keys, {}, now, e.key_hash).ret
                    /\ \A x \in CachedAt(r.cache, e.key_hash) : x.valid_until = now + CacheTTL

\* the clock stands at the instant an entry of a usable key stops being served
C32_Witness ==
    \E e \in cache : /\ now = e.valid_until
                     /\ \E k \in keys : k.key_hash = e.key_hash /\ ~k.is_revoked /\ k.expires_at >= now


\* C33: after any interleaving of a process_webhook credit with a transfer_funds
\* call, or of two transfer_funds calls, on the same wallet, no committed credit or
\* debit is lost: once the requests are done every balance equals the wallet's
\* credited deposits plus its incoming transfers minus its outgoing transfers
C33_NoLostUpdate ==
    (\A k \in Workers : sess[k] = Idle) =>
        \A w \in DOMAIN wallets :
            wallets[w].balance = SumAmounts(SuccessDeposits(txs, w))
                                   + SumAmounts(RowsOf(txs, w, "transfer_in"))
                                   - SumAmounts(RowsOf(txs, w, "transfer_out"))


\* C34: for every stored deposit amount, fractional ones included, the amount
\* initiate_deposit sends to the gateway, int(amount), equals the stored amount, and
\* whenever process_webhook credits the wallet the balance grows by the amount the
\* payload carries
C34_ExactAmounts ==
    \A t \in txs :
        t.type = "deposit" =>
            /\ IntPart(t.amount) * Scale = t.amount
            /\ \A a \in PayloadAmounts :
                  LET r == process_webhook(wallets, txs, Delivery(t.ref.n, a))
                  IN  r.why = "credited" =>
                          r.wallets[t.wallet].balance - wallets[t.wallet].balance = a * Scale


\* C35: at every instant a non-revoked key is counted as active by the quota query
\* of create_api_key exactly when validate_api_key, on a cache miss, accepts it,
\* also at the instant equal to the key's expiry time
C35_SameExpiry ==
    \A k \in keys :
        ~k.is_revoked =>
            (k \in ActiveKeys(keys, now, k.user_id)
                <=> validate_api_key(keys, {}, now, k.key_hash).ret.kind = "identity")


\* C36: while a user is inactive, login with the correct password is refused and no
\* request carrying only a bearer token issued to that user, or only one of that
\* user's API keys, is admitted by a protected route that takes that credential
C36_InactiveLockedOut ==
    \A u \in users :
        ~u.is_active =>
            /\ authenticate_user(users, u.username, u.hashed_password).ret # "user"
            /\ \A token \in IssuedTokens(now) : \A route \in {"user", "any"} :
                  token.sub = u.id =>
                      protected_route(route, users, blacklist, keys, cache, now, token, NoKey).ret.type
                          \notin {"user", "service"}
            /\ \A k \in keys : \A route \in {"service", "any"} :
                  k.user_id = u.id =>
                      protected_route(route, users, blacklist, keys, cache, now, NoToken, k.key_hash).ret.type
                          \notin {"user", "service"}


\* C37: after any sequence of create_wallet calls all wallet numbers are pairwise
\* distinct and each user has one wallet at most: create_wallet for a user who has
\* a wallet returns the wallets as they are, number and balance included, and for a
\* user who has none it adds one wallet, with balance zero and a number no wallet
\* carries, and changes no other wallet
C37_OneWalletEach ==
    /\ \A a, b \in DOMAIN wallets : a # b => wallets[a].number # wallets[b].number
    /\ \A user \in Users :
          LET r == create_wallet(wallets, user, generate_wallet_number(wallets))
          IN IF user \in DOMAIN wallets
             THEN r = wallets
             ELSE /\ DOMAIN r = DOMAIN wallets \cup {user}
                  /\ r[user].balance = 0
                  /\ r[user].number \notin UsedNumbers(wallets)
                  /\ \A w \in DOMAIN wallets : r[w] = wallets[w]

\* both users have a wallet and one of the wallets has been credited
C37_Witness ==
    /\ DOMAIN wallets = Users
    /\ \E w \in DOMAIN wallets : wallets[w].balance > 0


\* C38: a password-reset token changes the password once at most. A reset_password
\* that succeeds makes every further reset_password with its token fail and leave
\* the accounts unchanged; so does a token presented after its expiry, 15 minutes
\* after it was issued; a token whose user requests a new one is unusable from then
\* on; and a token that was issued and is no longer stored, used or replaced, fails
\* and leaves the accounts unchanged.
C38_SingleUse ==
    \A tk \in 1..MaxResets, p \in Passwords :
        LET r == reset_password(users, tk, p, now)
            holder == {u \in users : u.reset_token_hash = tk}
        IN  /\ r.ret = "ok" =>
                  \A p2 \in Passwords :
                      reset_password(r.users, tk, p2, now) = [users |-> r.users, ret |-> "400"]
            /\ (\E u \in holder : now > u.reset_token_expires_at) =>
                  r = [users |-> users, ret |-> "400"]
            /\ \A u \in holder :
                  LET f == create_password_reset_token(users, u.email, now, resets + 1)
                  IN  /\ f.ret = "token"
                      /\ reset_password(f.users, tk, p, now) = [users |-> f.users, ret |-> "400"]
            /\ (tk <= resets /\ holder = {}) => r = [users |-> users, ret |-> "400"]
            /\ \A u \in holder : u.reset_token_expires_at <= now + ResetMinutes

\* a user has reset the password with a token, another holds a token that has expired
C38_Witness ==
    /\ \E u \in users : u.hashed_password # SignupPassword /\ u.reset_token_hash = NoReset
    /\ \E u \in users : u.reset_token_hash # NoReset /\ now > u.reset_token_expires_at


\* C39: for each client the requests a RateLimiter has admitted within any window
\* of time_window seconds that ends at one of them number requests_limit at most; a
\* request rejected with TooManyRequests records nothing, so the client is admitted
\* again at the same instants as without it; and a request of one client leaves the
\* lists of the other clients as they are.
C39_SlidingWindow ==
    /\ \A c \in Clients : \A i \in 1..Len(requests[c]) :
          Cardinality({j \in 1..Len(requests[c]) :
                          /\ requests[c][i] - time_window < requests[c][j]
                          /\ requests[c][j] <= requests[c][i]}) <= requests_limit
    /\ \A c \in Clients :
          LET r == RateLimiter(requests, c, now)
          IN  /\ \A d \in Clients \ {c} : r.requests[d] = requests[d]
              /\ r.ret = "ok" =>
                    /\ Len(r.requests[c]) <= requests_limit
                    /\ r.requests[c][Len(r.requests[c])] = now
              /\ r.ret = "429" =>
                    /\ \A i \in 1..Len(r.requests[c]) :
                          \E j \in 1..Len(requests[c]) : r.requests[c][i] = requests[c][j]
                    /\ Len(r.requests[c]) <= Len(requests[c])
                    /\ \A t \in now..(MaxClock + time_window) :
                          RateLimiter(r.requests, c, t).ret = RateLimiter(requests, c, t).ret

\* a client is rejected at an instant at which another client, seen before, is admitted
C39_Witness ==
    \E c, d \in Clients :
        /\ RateLimiter(requests, c, now).ret = "429"
        /\ Len(requests[d]) > 0
        /\ RateLimiter(requests, d, now).ret = "ok"

====
